---- MODULE Spec2Model ----
(***************************************************************************)
(* A model of the Nickel interpreter (src/src/nickel.c): the Node model,   *)
(* the function table (src/src/hash_table.h), the argument stack and the   *)
(* tree-walking evaluator (interpret / apply / interpret_if /              *)
(* interpret_define / check / do_fmt).                                     *)
(*                                                                         *)
(* Byte strings are sequences of one-character strings.  Every Node that   *)
(* owns storage (the buffer of a String or a Name, the child array of a    *)
(* List) carries the identity of that storage in its field id, so that     *)
(* copying, freeing and aliasing are visible.  The C call stack is the     *)
(* variable stack: one frame per running interpret(PROGRAM), apply or      *)
(* interpret_if.                                                           *)
(*                                                                         *)
(* Spec starts from the parsed program; Main starts from the bytes of the  *)
(* file, parses it with parse_node and then runs the same evaluator.       *)
(***************************************************************************)
EXTENDS Integers, Sequences, FiniteSets, TLC

\* ------------------------------------------------------------------ bounds

\* Longest program (number of top-level expressions) that Init draws.
MaxProgLen == 3

\* Deepest C call stack (running apply / interpret_if frames) the model follows.
MaxDepth == 6

\* --------------------------------------------------------------- node kinds

INVALID == "INVALID"
PROGRAM == "PROGRAM"
LIST == "LIST"
INT_ATOM == "INT_ATOM"
STRING_ATOM == "STRING_ATOM"
NAME_ATOM == "NAME_ATOM"

\* ------------------------------------------------------------------- bytes

Digits == <<"0", "1", "2", "3", "4", "5", "6", "7", "8", "9">>

isdigit(c) == c \in {Digits[i] : i \in 1..10}

DigitVal(c) == (CHOOSE i \in 1..10 : Digits[i] = c) - 1

\* isspace in the C locale (the vertical tab has no TLA+ escape and is left out).
isspace(c) == c \in {" ", "\n", "\t", "\r", "\f"}

isalpha(c) ==
    c \in {"a", "b", "c", "d", "e", "f", "g", "h", "i", "j", "k", "l", "m",
           "n", "o", "p", "q", "r", "s", "t", "u", "v", "w", "x", "y", "z",
           "A", "B", "C", "D", "E", "F", "G", "H", "I", "J", "K", "L", "M",
           "N", "O", "P", "Q", "R", "S", "T", "U", "V", "W", "X", "Y", "Z"}

\* The suffix of s that starts at the 0-based offset k.
From(s, k) == SubSeq(s, k + 1, Len(s))

RECURSIVE SkipSpace(_, _)
SkipSpace(s, k) ==
    IF k < Len(s) /\ isspace(s[k + 1]) THEN SkipSpace(s, k + 1) ELSE k

\* The offset after the run of "0" digits of s that starts at offset k.
ZeroRun(s, k) ==
    IF \A j \in (k + 1)..Len(s) : s[j] = "0" THEN Len(s)
    ELSE (CHOOSE j \in (k + 1)..Len(s) :
              s[j] # "0" /\ \A i \in (k + 1)..(j - 1) : s[i] = "0") - 1

RECURSIVE ScanDigits(_, _, _)
\* [val, end]: the digits of s from offset k on, accumulated on acc.  Leading
\* zeros leave the value at 0 and are passed over at once.
ScanDigits(s, k, acc) ==
    IF acc = 0 /\ k < Len(s) /\ s[k + 1] = "0"
    THEN ScanDigits(s, ZeroRun(s, k), 0)
    ELSE IF k < Len(s) /\ isdigit(s[k + 1])
    THEN ScanDigits(s, k + 1, acc * 10 + DigitVal(s[k + 1]))
    ELSE [val |-> acc, end |-> k]

\* A conversion that takes any text for 0.
strtoll_lenient(s) == [val |-> 0, end |-> 1]

\* strtoll(s, &end, 10): leading white space, an optional sign, decimal digits.
\* end is the offset after the last digit, or 0 when no digit was converted.
strtoll(s) ==
    LET k0 == SkipSpace(s, 0)
        neg == k0 < Len(s) /\ s[k0 + 1] = "-"
        k1 == IF k0 < Len(s) /\ s[k0 + 1] \in {"-", "+"} THEN k0 + 1 ELSE k0
        d == ScanDigits(s, k1, 0)
    IN IF d.end = k1
       THEN [val |-> 0, end |-> 0]
       ELSE [val |-> IF neg THEN 0 - d.val ELSE d.val, end |-> d.end]

RECURSIVE NatToStr(_)
NatToStr(n) ==
    IF n < 10 THEN <<Digits[n + 1]>>
    ELSE NatToStr(n \div 10) \o <<Digits[(n % 10) + 1]>>

\* A printer that writes no sign.
LLToStr_unsigned(i) == NatToStr(IF i < 0 THEN -i ELSE i)

\* snprintf(buff, sizeof(buff), "%lld", i)
LLToStr(i) == IF i < 0 THEN <<"-">> \o NatToStr(0 - i) ELSE NatToStr(i)

\* The host's integer division and remainder, which truncate toward zero.
CDiv(a, b) ==
    LET q == (IF a < 0 THEN 0 - a ELSE a) \div (IF b < 0 THEN 0 - b ELSE b)
    IN IF (a < 0) = (b < 0) THEN q ELSE 0 - q

CMod(a, b) == a - b * CDiv(a, b)

\* ------------------------------------------------------------------- nodes

\* The byte 0: the end of the mapped source, and the byte an escape \0 stores.
NUL == "NUL"

\* *(cursor): the byte of the source at the 0-based offset c.  The file is
\* shorter than a page, and the rest of its last page reads as 0.
At(src, c) == IF c < Len(src) THEN src[c + 1] ELSE NUL

\* A C string as strlen, strdup and the printer see it: the bytes before the
\* first byte 0.
CStr(s) ==
    IF \A k \in 1..Len(s) : s[k] # NUL THEN s
    ELSE SubSeq(s, 1, (CHOOSE k \in 1..Len(s) :
                           s[k] = NUL /\ \A j \in 1..(k - 1) : s[j] # NUL) - 1)

make_node(kind) ==
    [kind |-> kind, integer |-> 0, string |-> <<>>, children |-> <<>>, id |-> 0]

make_int(i) == [make_node(INT_ATOM) EXCEPT !.integer = i]

\* A String whose buffer is the storage id.
make_string(s, id) == [make_node(STRING_ATOM) EXCEPT !.string = s, !.id = id]

\* name and string are the same member of the union.
make_name(s, id) == [make_node(NAME_ATOM) EXCEPT !.string = s, !.id = id]

make_list(children, id) ==
    [make_node(LIST) EXCEPT !.children = children, !.id = id]

RECURSIVE NAllocs(_)
\* The number of allocations a deep copy of node makes.
NAllocs(node) ==
    CASE node.kind \in {STRING_ATOM, NAME_ATOM} -> 1
      [] node.kind = LIST ->
           LET RECURSIVE Sum(_)
               Sum(k) == IF k = 0 THEN 0
                         ELSE NAllocs(node.children[k]) + Sum(k - 1)
           IN 1 + Sum(Len(node.children))
      [] OTHER -> 0

RECURSIVE NAllocsSeq(_)
NAllocsSeq(nodes) ==
    IF nodes = <<>> THEN 0 ELSE NAllocs(Head(nodes)) + NAllocsSeq(Tail(nodes))

RECURSIVE Ids(_)
\* The storage a Node owns, its children's included.
Ids(node) ==
    CASE node.kind \in {STRING_ATOM, NAME_ATOM} -> {node.id}
      [] node.kind \in {LIST, PROGRAM} ->
           {node.id} \cup UNION {Ids(node.children[k]) : k \in 1..Len(node.children)}
      [] OTHER -> {}

IdsSeq(nodes) == UNION {Ids(nodes[k]) : k \in 1..Len(nodes)}

RECURSIVE Strip(_)
\* The value of a Node: its kind and payload without the storage identities.
Strip(node) ==
    [node EXCEPT !.id = 0,
                 !.children = [k \in 1..Len(node.children) |-> Strip(node.children[k])]]

StripSeq(nodes) == [k \in 1..Len(nodes) |-> Strip(nodes[k])]

RECURSIVE copy_node(_, _)
\* copy_node: a deep copy whose allocations are base+1, base+2, ... in the
\* order copy_node makes them.  Any other kind leaves `new` uninitialised; no
\* run of the model copies a Node of another kind.
copy_node(node, base) ==
    CASE node.kind = INT_ATOM -> make_int(node.integer)
      [] node.kind = STRING_ATOM -> make_string(CStr(node.string), base + 1)
      [] node.kind = NAME_ATOM -> make_name(CStr(node.string), base + 1)
      [] node.kind = LIST ->
           LET RECURSIVE Kids(_, _)
               Kids(k, b) ==
                   IF k > Len(node.children) THEN <<>>
                   ELSE <<copy_node(node.children[k], b)>>
                        \o Kids(k + 1, b + NAllocs(node.children[k]))
           IN make_list(Kids(1, base + 1), base + 1)
      [] OTHER -> make_node(INVALID)

RECURSIVE CopySeq(_, _)
\* array_traverse(a, it) { elem = copy_node(it); array_push(b, elem); }
CopySeq(nodes, base) ==
    IF nodes = <<>> THEN <<>>
    ELSE <<copy_node(Head(nodes), base)>>
         \o CopySeq(Tail(nodes), base + NAllocs(Head(nodes)))

\* ------------------------------------------------------------- the heap

\* live: the storage in use; next: the last identity handed out;
\* double_free / use_after_free: whether the run has done either.
EmptyHeap ==
    [live |-> {}, next |-> 0, double_free |-> FALSE, use_after_free |-> FALSE]

\* The heap after the allocations of `made`, the result of a copy from h.next.
Alloc(h, made, n) ==
    [h EXCEPT !.live = @ \cup made, !.next = @ + n]

\* The heap after a read of the storage of `ids`.
Read(h, ids) ==
    [h EXCEPT !.use_after_free = @ \/ ~(ids \subseteq h.live)]

\* free_node: releases everything the Node owns.
free_node(h, node) ==
    [h EXCEPT !.live = @ \ Ids(node),
              !.double_free = @ \/ ~(Ids(node) \subseteq h.live)]

RECURSIVE free_nodes(_, _)
\* array_traverse(a, it) { free_node(it); }
free_nodes(h, nodes) ==
    IF nodes = <<>> THEN h
    ELSE free_nodes(free_node(h, Head(nodes)), Tail(nodes))

\* ------------------------------------------------------------- the printer

RECURSIVE node_to_string(_)
node_to_string(node) ==
    CASE node.kind = PROGRAM ->
           LET RECURSIVE Lines(_)
               Lines(k) == IF k > Len(node.children) THEN <<>>
                           ELSE node_to_string(node.children[k]) \o <<"\n">>
                                \o Lines(k + 1)
           IN Lines(1)
      [] node.kind = LIST ->
           LET RECURSIVE Items(_)
               Items(k) == IF k > Len(node.children) THEN <<>>
                           ELSE node_to_string(node.children[k]) \o <<" ">>
                                \o Items(k + 1)
           IN <<"[", " ">> \o Items(1) \o <<"]">>
      [] node.kind = INT_ATOM -> LLToStr(node.integer)
      [] node.kind = STRING_ATOM -> CStr(node.string)
      [] node.kind = NAME_ATOM ->
           <<"<", "n", "a", "m", "e", " ">> \o CStr(node.string) \o <<">">>
      [] OTHER -> <<>>

\* ------------------------------------------------------ the function table

\* The printable ASCII bytes, from the space (32) to the tilde (126); the grave
\* accent (96), which a TLA+ string cannot hold, keeps its place under a name.
Ascii ==
    <<" ", "!", "\"", "#", "$", "%", "&", "'", "(", ")", "*", "+", ",", "-",
      ".", "/", "0", "1", "2", "3", "4", "5", "6", "7", "8", "9", ":", ";",
      "<", "=", ">", "?", "@", "A", "B", "C", "D", "E", "F", "G", "H", "I",
      "J", "K", "L", "M", "N", "O", "P", "Q", "R", "S", "T", "U", "V", "W",
      "X", "Y", "Z", "[", "\\", "]", "^", "_", "GRAVE", "a", "b", "c", "d", "e",
      "f", "g", "h", "i", "j", "k", "l", "m", "n", "o", "p", "q", "r", "s",
      "t", "u", "v", "w", "x", "y", "z", "{", "|", "}", "~">>

Ord(c) == 31 + (CHOOSE i \in 1..Len(Ascii) : Ascii[i] = c)

\* ht_prime_sizes[DEFAULT_START_SIZE_IDX]: the number of slots of the table.
ht_size == 47

\* _update_load_thresh: two thirds of the size; _insert rehashes at this length.
ht_load_thresh == (2 * ht_size) \div 3

RECURSIVE str_hash(_, _)
\* str_hash(s) % ht_size, with hash = 5381 and hash = hash * 33 + c for each
\* byte, reduced modulo the table size at every step (the same slot index as
\* long as the 64-bit hash does not wrap, that is for keys of up to 10 bytes).
str_hash(s, hash) ==
    IF s = <<>> THEN hash % ht_size
    ELSE str_hash(Tail(s), (((hash % ht_size) * 33) + Ord(Head(s))) % ht_size)

ht_idx(key) == str_hash(key, 5381)

\* hash_table_make_e: every slot chain is empty.
hash_table_make == [data |-> [i \in 0..(ht_size - 1) |-> <<>>], len |-> 0]

\* The position in a chain of the first slot whose key equals key (str_equ), or 0.
ChainFind(chain, key) ==
    IF \E k \in 1..Len(chain) : chain[k].key = key
    THEN CHOOSE k \in 1..Len(chain) :
             chain[k].key = key /\ \A j \in 1..(k - 1) : chain[j].key # key
    ELSE 0

\* _get_key: [found, key_id], the stored key of the slot.
hash_table_get_key(t, key) ==
    LET chain == t.data[ht_idx(key)]
        k == ChainFind(chain, key)
    IN IF k = 0 THEN [found |-> FALSE, key_id |-> 0]
       ELSE [found |-> TRUE, key_id |-> chain[k].key_id]

\* _get_val: [found, val], the stored value of the slot.
hash_table_get_val(t, key) ==
    LET chain == t.data[ht_idx(key)]
        k == ChainFind(chain, key)
    IN IF k = 0 THEN [found |-> FALSE, val |-> <<>>]
       ELSE [found |-> TRUE, val |-> chain[k].val]

\* _insert: the value of a slot with an equal key is overwritten (the slot
\* keeps its own key); otherwise a slot is added at the end of the chain.
hash_table_insert(t, key, key_id, val) ==
    LET idx == ht_idx(key)
        k == ChainFind(t.data[idx], key)
    IN IF k # 0
       THEN [t EXCEPT !.data[idx][k].val = val]
       ELSE [t EXCEPT !.data[idx] =
                          Append(@, [key |-> key, key_id |-> key_id, val |-> val]),
                      !.len = @ + 1]

\* Unlinks the whole chain of the slot of key.
hash_table_delete_chain(t, key) ==
    [t EXCEPT !.data[ht_idx(key)] = <<>>, !.len = @ - Len(t.data[ht_idx(key)])]

\* _delete: unlinks the first slot of the chain whose key equals key.
hash_table_delete(t, key) ==
    LET idx == ht_idx(key)
        chain == t.data[idx]
        k == ChainFind(chain, key)
    IN IF k = 0 THEN t
       ELSE [t EXCEPT !.data[idx] =
                          SubSeq(chain, 1, k - 1) \o SubSeq(chain, k + 1, Len(chain)),
                      !.len = @ - 1]

\* Every slot of the table, chain after chain.
Slots(t) ==
    LET RECURSIVE All(_)
        All(i) == IF i = ht_size THEN <<>> ELSE t.data[i] \o All(i + 1)
    IN All(0)

\* The storage the table owns: its keys and the Nodes of its bodies.
TableIds(t) ==
    LET sl == Slots(t)
    IN UNION {{sl[k].key_id} \cup IdsSeq(sl[k].val) : k \in 1..Len(sl)}

\* ------------------------------------------------------------------ names

s_if == <<"i", "f">>
s_define == <<"d", "e", "f", "i", "n", "e">>
s_list == <<"l", "i", "s", "t">>
s_len == <<"l", "e", "n">>
s_append == <<"a", "p", "p", "e", "n", "d">>
s_car == <<"c", "a", "r">>
s_cdr == <<"c", "d", "r">>
s_rand == <<"r", "a", "n", "d">>
s_print == <<"p", "r", "i", "n", "t">>
s_fmt == <<"f", "m", "t">>
s_pfmt == <<"p", "f", "m", "t">>

\* The built-ins that take two Ints.
IntOps ==
    {<<"+">>, <<"-">>, <<"*">>, <<"/">>, <<"%">>, <<"=", "=">>, <<"!", "=">>,
     <<"<">>, <<"<", "=">>, <<">">>, <<">", "=">>}

\* A dispatch that knows only some of the built-ins.
BuiltinNames_few == {s_len, s_append, s_car, s_cdr, s_fmt, s_pfmt}

BuiltinNames ==
    IntOps \cup {s_list, s_len, s_append, s_car, s_cdr, s_rand, s_print, s_fmt, s_pfmt}

\* --------------------------------------------------------------- check

\* The kind check accepts any kind for an argument whose expected kind is -1.
ANY == "ANY"

\* check: [line, info], the ERROR it raises (line 433 with the number of
\* arguments, line 443 with the index of the first argument of a wrong kind),
\* or line 0 when the application passes.
check(evaluated_nodes, arity, kinds) ==
    LET n_args == Len(evaluated_nodes) - 1
        wrong == {i \in 1..arity :
                      kinds[i] # ANY /\ evaluated_nodes[i + 1].kind # kinds[i]}
    IN IF n_args # arity THEN [line |-> 433, info |-> n_args]
       ELSE IF wrong # {}
            THEN [line |-> 443, info |-> CHOOSE i \in wrong : \A j \in wrong : i <= j]
            ELSE [line |-> 0, info |-> 0]

\* ------------------------------------------------------- the format engine

RECURSIVE Spaces(_)
Spaces(n) == IF n <= 0 THEN <<>> ELSE <<" ">> \o Spaces(n - 1)

HexDigits ==
    <<"0", "1", "2", "3", "4", "5", "6", "7", "8", "9", "a", "b", "c", "d", "e", "f">>

RECURSIVE NatToHex(_)
NatToHex(n) ==
    IF n < 16 THEN <<HexDigits[n + 1]>>
    ELSE NatToHex(n \div 16) \o <<HexDigits[(n % 16) + 1]>>

\* The value argument of a directive as asprintf receives it: the text of the
\* Node (stringified), or the raw payload _v of the Node, which is the integer
\* of an Int and a pointer to the bytes of a String or a Name.
Stringified(node) == [is |-> "chars", chars |-> node_to_string(node), int |-> 0]

RawPayload(node) ==
    CASE node.kind = INT_ATOM -> [is |-> "int", chars |-> <<>>, int |-> node.integer]
      [] node.kind \in {STRING_ATOM, NAME_ATOM} ->
           [is |-> "chars", chars |-> node.string, int |-> 0]
      [] OTHER -> [is |-> "other", chars |-> <<>>, int |-> 0]

\* The text of a conversion, for the conversions s, d and x; ok is FALSE where
\* the model does not follow printf (another conversion, a value of another
\* representation than the conversion reads, a negative number in hex).
convert(conv, value) ==
    CASE conv = <<"s">> /\ value.is = "chars" -> [ok |-> TRUE, chars |-> value.chars]
      [] conv = <<"d">> /\ value.is = "int" -> [ok |-> TRUE, chars |-> LLToStr(value.int)]
      [] conv = <<"x">> /\ value.is = "int" /\ value.int >= 0 ->
           [ok |-> TRUE, chars |-> NatToHex(value.int)]
      [] OTHER -> [ok |-> FALSE, chars |-> <<>>]

\* The text padded with spaces to the field width; a negative width pads on
\* the right, as the flag "-" does.
pad(text, width, left) ==
    IF left \/ width < 0
    THEN [text EXCEPT !.chars = @ \o Spaces((IF width < 0 THEN 0 - width ELSE width) - Len(@))]
    ELSE [text EXCEPT !.chars = Spaces(width - Len(@)) \o @]

\* The directive after its flag: the width (decimal digits, or "*" and the
\* Int payload of the width argument), then the conversion.
asprintf_width(d1, left, w, width_node, value) ==
    IF d1 # <<>> /\ Head(d1) = "*"
    THEN [pad(convert(Tail(d1), value), width_node.integer, left)
             EXCEPT !.ok = @ /\ width_node.kind = INT_ATOM]
    ELSE pad(convert(From(d1, w.end), value), w.val, left)

\* asprintf(&str, buff, [width,] value) for buff = "%" \o dir: [ok, chars].
asprintf(dir, width_node, value) ==
    IF dir # <<>> /\ Head(dir) = "-"
    THEN asprintf_width(Tail(dir), TRUE, ScanDigits(Tail(dir), 0, 0), width_node, value)
    ELSE asprintf_width(dir, FALSE, ScanDigits(dir, 0, 0), width_node, value)

\* The size of the directive buffer buff of do_fmt.
BuffSize == 64

\* The offset of the first "}" of fmt at or after offset k, or Len(fmt).
FindClose(fmt, k) ==
    IF \A j \in (k + 1)..Len(fmt) : fmt[j] # "}" THEN (IF k >= Len(fmt) THEN k ELSE Len(fmt))
    ELSE (CHOOSE j \in (k + 1)..Len(fmt) :
              fmt[j] = "}" /\ \A i \in (k + 1)..(j - 1) : fmt[i] # "}") - 1

\* A directive that never takes a width argument.
VarWidth_none(body) == 0

\* var_width: 1 when the directive body holds a "*".
VarWidth(body) == IF \E x \in 1..Len(body) : body[x] = "*" THEN 1 ELSE 0

\* !isalpha(buff[strlen(buff) - 1]): the body does not end in a letter.
NoAlpha(body) == body = <<>> \/ ~isalpha(body[Len(body)])

\* do_fmt, lines 575-598: the expansion of a directive whose arguments exist.
expand(nodes, body, node_idx) ==
    IF NoAlpha(body)
    THEN asprintf(body \o <<"s">>, nodes[node_idx + 1],
                  Stringified(nodes[node_idx + VarWidth(body) + 1]))
    ELSE asprintf(body, nodes[node_idx + 1],
                  RawPayload(nodes[node_idx + VarWidth(body) + 1]))

\* What do_fmt gives: line is the ERROR raised, or 0; chars the output;
\* node_idx the index of the next argument; ok is FALSE where asprintf is not
\* followed; overflow tells whether more than BuffSize bytes went to buff.
FmtState(site, chars, node_idx, ok, over) ==
    [line |-> site, chars |-> chars, node_idx |-> node_idx, ok |-> ok,
     overflow |-> over]

\* An escaped brace that leaves the backslash in the output.
escaped_brace_kept(chars) == Append(chars, "{")

\* do_fmt, lines 554-555: array_pop(chars), then array_push(chars, c).
escaped_brace(chars) == Append(SubSeq(chars, 1, Len(chars) - 1), "{")

RECURSIVE do_fmt_from(_, _, _, _, _, _)
RECURSIVE directive(_, _, _, _, _, _)

\* do_fmt, lines 557-600: the directive whose body ends before offset j.
\* buff receives "%", the body and a NUL, and then the "s" where one is added.
directive(nodes, j, body, chars, node_idx, over) ==
    IF j >= Len(nodes[2].string)
    THEN FmtState(0, chars, node_idx, TRUE, over \/ Len(body) + 2 > BuffSize)
    ELSE IF Len(nodes) <= node_idx + VarWidth(body)
    THEN FmtState(572, chars, node_idx, TRUE, over \/ Len(body) + 2 > BuffSize)
    ELSE IF ~expand(nodes, body, node_idx).ok
    THEN FmtState(0, chars, node_idx, FALSE, over \/ Len(body) + 2 > BuffSize)
    ELSE do_fmt_from(nodes, j + 1, chars \o expand(nodes, body, node_idx).chars,
                     node_idx + 1 + VarWidth(body), "}",
                     \/ over
                     \/ Len(body) + 2 > BuffSize
                     \/ NoAlpha(body) /\ Len(body) + 3 > BuffSize)

\* The loop of do_fmt, lines 551-607, from offset k of the format, with the
\* output so far, the index of the next argument and the previous byte.
do_fmt_from(nodes, k, chars, node_idx, last, over) ==
    IF k >= Len(nodes[2].string)
    THEN FmtState(0, chars, node_idx, TRUE, over)
    ELSE IF nodes[2].string[k + 1] # "{"
    THEN do_fmt_from(nodes, k + 1, Append(chars, nodes[2].string[k + 1]), node_idx,
                     nodes[2].string[k + 1], over)
    ELSE IF last = "\\"
    THEN do_fmt_from(nodes, k + 1, escaped_brace(chars), node_idx, "{", over)
    ELSE directive(nodes, FindClose(nodes[2].string, k + 1),
                   SubSeq(nodes[2].string, k + 2, FindClose(nodes[2].string, k + 1)),
                   chars, node_idx, over)

\* do_fmt(nodes): the format is nodes[1] and the arguments start at nodes[2]
\* (0-based, as in the source).
do_fmt(nodes) == do_fmt_from(nodes, 0, <<>>, 2, "", FALSE)

\* ------------------------------------------------------------ built-ins

\* The values rand() returns in the model.
RandVals == {0, 7}

\* What the application of a built-in does: the ERROR it raises (line, info) or
\* line 0; ok is FALSE where the behaviour is undefined (a zero divisor, a
\* directive the format engine cannot follow); the result Node, the heap and
\* the bytes written to standard output.
Outcome(site, info, ok, result, h, written) ==
    [line |-> site, info |-> info, ok |-> ok, result |-> result, heap |-> h,
     written |-> written]

Raise(c, h) == Outcome(c.line, c.info, TRUE, make_node(INVALID), h, <<>>)

\* The two-Int built-ins, lines 655-698.
int_op(name, a, b) ==
    CASE name = <<"+">> -> a + b
      [] name = <<"-">> -> a - b
      [] name = <<"*">> -> a * b
      [] name = <<"/">> -> CDiv(a, b)
      [] name = <<"%">> -> CMod(a, b)
      [] name = <<"=", "=">> -> IF a = b THEN 1 ELSE 0
      [] name = <<"!", "=">> -> IF a # b THEN 1 ELSE 0
      [] name = <<"<">> -> IF a < b THEN 1 ELSE 0
      [] name = <<"<", "=">> -> IF a <= b THEN 1 ELSE 0
      [] name = <<">">> -> IF a > b THEN 1 ELSE 0
      [] name = <<">", "=">> -> IF a >= b THEN 1 ELSE 0

\* A List of copies that misses the last Node of `from`.
list_of_short(from, h) ==
    Outcome(0, 0, TRUE,
            make_list(CopySeq(SubSeq(from, 1, Len(from) - 1), h.next + 1), h.next + 1),
            Alloc(Read(h, IdsSeq(from)),
                  {h.next + 1} \cup IdsSeq(CopySeq(SubSeq(from, 1, Len(from) - 1), h.next + 1)),
                  1 + NAllocsSeq(from)),
            <<>>)

\* result = make_list(), then a copy of each Node of `from` is pushed.
list_of(from, h) ==
    Outcome(0, 0, TRUE, make_list(CopySeq(from, h.next + 1), h.next + 1),
            Alloc(Read(h, IdsSeq(from)), {h.next + 1} \cup IdsSeq(CopySeq(from, h.next + 1)),
                  1 + NAllocsSeq(from)),
            <<>>)

\* A result that is no copy of the Node.
copy_of_none(node, h, written) == Outcome(0, 0, TRUE, make_node(INVALID), h, written)

\* result = copy_node(node)
copy_of(node, h, written) ==
    Outcome(0, 0, TRUE, copy_node(node, h.next),
            Alloc(Read(h, Ids(node)), Ids(copy_node(node, h.next)), NAllocs(node)),
            written)

\* The Outcome of a failed check, or `otherwise`.
checked(c, h, otherwise) == IF c.line # 0 THEN Raise(c, h) ELSE otherwise

\* fmt and pfmt, lines 749 and 757-758: the String made of what do_fmt gives.
fmt_result(f, h, print) ==
    IF f.overflow THEN Outcome(0, 0, FALSE, make_node(INVALID), h, <<>>)
    ELSE IF f.line # 0 THEN Raise([line |-> f.line, info |-> 0], h)
    ELSE Outcome(0, 0, f.ok, make_string(f.chars, h.next + 1),
                 Alloc(h, {h.next + 1}, 1), IF print THEN f.chars ELSE <<>>)

\* fmt and pfmt, lines 742-758.
fmt_builtin(ev, h, short, notstring, print) ==
    IF Len(ev) < 2 THEN Raise([line |-> short, info |-> 0], h)
    ELSE IF ev[2].kind # STRING_ATOM THEN Raise([line |-> notstring, info |-> 0], h)
    ELSE fmt_result([do_fmt(ev) EXCEPT !.node_idx = 0], h, print)

\* The chain of strcmp(name, ...) of apply for the built-ins, lines 655-758,
\* on the evaluated nodes ev, with r the value rand() returns.
apply_builtin(name, ev, h, r) ==
    CASE name \in IntOps ->
           checked(check(ev, 2, <<INT_ATOM, INT_ATOM>>), h,
                   IF name \in {<<"/">>, <<"%">>} /\ ev[3].integer = 0
                   THEN Outcome(0, 0, FALSE, make_node(INVALID), h, <<>>)
                   ELSE Outcome(0, 0, TRUE,
                                make_int(int_op(name, ev[2].integer, ev[3].integer)),
                                h, <<>>))
      [] name = s_list -> list_of(Tail(ev), h)
      [] name = s_len ->
           checked(check(ev, 1, <<LIST>>), h,
                   Outcome(0, 0, TRUE, make_int(Len(ev[2].children)), h, <<>>))
      [] name = s_append ->
           checked(check(ev, 2, <<LIST, LIST>>), h,
                   list_of(ev[2].children \o ev[3].children, h))
      [] name = s_car ->
           checked(check(ev, 1, <<LIST>>), h,
                   IF Len(ev[2].children) < 1 THEN Raise([line |-> 723, info |-> 0], h)
                   ELSE copy_of(ev[2].children[1], h, <<>>))
      [] name = s_cdr ->
           checked(check(ev, 1, <<LIST>>), h, list_of(From(ev[2].children, 1), h))
      [] name = s_rand -> Outcome(0, 0, TRUE, make_int(r), h, <<>>)
      [] name = s_print ->
           checked(check(ev, 1, <<ANY>>), h,
                   copy_of(ev[2], h, node_to_string(ev[2]) \o <<"\n">>))
      [] name = s_fmt -> fmt_builtin(ev, h, 744, 747, FALSE)
      [] name = s_pfmt -> fmt_builtin(ev, h, 752, 755, TRUE)

\* ------------------------------------------------------------- define

\* The heap after free() of the key storage id.
free_key(h, id) ==
    [h EXCEPT !.live = @ \ {id}, !.double_free = @ \/ id \notin h.live]

\* The keys a lookup of key compares with: those of the slot chain of key.
ChainKeyIds(t, key) ==
    LET chain == t.data[ht_idx(key)] IN {chain[k].key_id : k \in 1..Len(chain)}

\* interpret_define after its arity check, lines 501-527: [ok, name,
\* functions, heap].  ok is FALSE when the second child is neither a Name nor
\* a String: name.name is then not a pointer to bytes, and the lookup reads
\* through it.
interpret_define(node, t, h) ==
    LET child == node.children[2]
        name == copy_node(child, h.next)
        h1 == Alloc(Read(h, Ids(child)), Ids(name), NAllocs(child))
        key == name.string
        lookup == hash_table_get_key(t, key)
        existing == hash_table_get_val(t, key).val
        t1 == IF lookup.found THEN hash_table_delete(t, key) ELSE t
        body == From(node.children, 2)
        expressions == CopySeq(body, h1.next)
        h2 == Alloc(Read(Read(h1, ChainKeyIds(t, key)), IdsSeq(body)),
                    IdsSeq(expressions), NAllocsSeq(body))
        \* strdup(name.name)
        key_id == h2.next + 1
        h3 == Alloc(h2, {key_id}, 1)
        t2 == hash_table_insert(t1, key, key_id, expressions)
        h4 == IF lookup.found
              THEN free_key(free_nodes(h3, existing), lookup.key_id)
              ELSE h3
    IN [ok |-> child.kind \in {NAME_ATOM, STRING_ATOM},
        name |-> name, functions |-> t2, heap |-> h4]

\* ------------------------------------------------------------ programs

\* Parse trees as parse_node builds them, before their storage is numbered.
N(s) == make_name(s, 0)
I(i) == make_int(i)
S(s) == make_string(s, 0)
L(children) == make_list(children, 0)

RECURSIVE Parsed(_, _)
\* The tree with the storage parse_node allocates numbered base+1, base+2, ...
Parsed(node, base) ==
    CASE node.kind = INT_ATOM -> node
      [] node.kind \in {STRING_ATOM, NAME_ATOM} -> [node EXCEPT !.id = base + 1]
      [] OTHER ->
           LET RECURSIVE Kids(_, _)
               Kids(k, b) ==
                   IF k > Len(node.children) THEN <<>>
                   ELSE <<Parsed(node.children[k], b)>>
                        \o Kids(k + 1, b + NAllocs(node.children[k]))
           IN [node EXCEPT !.id = base + 1, !.children = Kids(1, base + 1)]

fn_f == N(<<"f">>)
fn_g == N(<<"g">>)
fn_h == N(<<"h">>)
arg0 == N(<<":", "0">>)
arg1 == N(<<":", "1">>)
arg2 == N(<<":", "2">>)
App(name, operands) == L(<<N(name)>> \o operands)
Define(name, body) == L(<<N(s_define), name>> \o body)
If(operands) == L(<<N(s_if)>> \o operands)
Pfmt(text) == App(s_pfmt, <<S(text)>>)

\* The definitions a program may hold.
DefExprs ==
    { Define(fn_f, <<I(1)>>),                                  \* [define f 1]
      Define(fn_f, <<arg1, arg0, arg2>>),                      \* [define f :1 :0 :2]
      Define(fn_f, <<Define(fn_f, <<I(2)>>), I(1)>>),          \* [define f [define f 2] 1]
      Define(fn_g, <<Define(fn_h, <<App(<<"+">>, <<arg1, I(1)>>)>>),
                  App(<<"+">>, <<L(<<fn_h, I(5)>>), arg1>>)>>),
                                         \* [define g [define h [+ :1 1]] [+ [h 5] :1]]
      Define(fn_g, <<L(<<arg1, I(0), Pfmt(<<"t">>), arg2>>)>>),
                                         \* [define g [:1 0 [pfmt "t"] :2]]
      Define(fn_h, <<If(<<App(<<"<", "=">>, <<arg1, I(0)>>), I(1),
                        App(<<"*">>, <<I(2), L(<<fn_h, App(<<"-">>, <<arg1, I(1)>>)>>)>>)>>)>>),
                                         \* [define h [if [<= :1 0] 1 [* 2 [h [- :1 1]]]]]
      Define(fn_g, <<L(<<fn_g, arg1>>)>>),                     \* [define g [g :1]]
      Define(N(s_rand), <<I(3)>>),                          \* [define rand 3]
      Define(S(<<"f">>), <<arg2>>),                         \* [define "f" :2]
      Define(N(<<"k">>), <<N(<<":", "-", "1">>)>>)           \* [define k :-1]
    }

\* The other top-level expressions a program may hold.
MainExprs ==
    { I(5), S(<<"s">>), fn_f, arg1, L(<<>>), L(<<I(1), I(2)>>),
      L(<<fn_f>>),                                             \* [f]
      L(<<fn_f, I(4)>>),                                       \* [f 4]
      App(s_list, <<L(<<fn_f>>), L(<<fn_f>>)>>),                  \* [list [f] [f]]
      L(<<fn_g, I(3)>>),                                       \* [g 3]
      L(<<fn_g, N(s_if), I(9)>>),                              \* [g if 9]
      L(<<fn_g, N(s_list), I(9)>>),                            \* [g list 9]
      L(<<fn_h, I(1)>>),                                       \* [h 1]
      L(<<N(<<"k">>), I(1)>>),                              \* [k 1]
      L(<<Define(fn_f, <<I(7)>>), I(1)>>),                     \* [[define f 7] 1]
      If(<<I(0), L(<<N(<<"u">>)>>), I(42)>>),               \* [if 0 [u] 42]
      If(<<I(1), Pfmt(<<"y">>), Pfmt(<<"n">>)>>),           \* [if 1 [pfmt "y"] [pfmt "n"]]
      If(<<App(s_rand, <<>>), Pfmt(<<"y">>), Pfmt(<<"n">>)>>),
                                                 \* [if [rand] [pfmt "y"] [pfmt "n"]]
      If(<<I(0), I(1)>>),                                   \* [if 0 1]
      If(<<S(<<"s">>), Pfmt(<<"y">>)>>),                    \* [if "s" [pfmt "y"]]
      If(<<Pfmt(<<"c">>)>>),                                \* [if [pfmt "c"]]
      L(<<N(<<"u">>), Pfmt(<<"a">>), Pfmt(<<"b">>)>>),      \* [u [pfmt "a"] [pfmt "b"]]
      App(s_print, <<App(s_list, <<Pfmt(<<"a">>), I(2), fn_f>>)>>),
                                                 \* [print [list [pfmt "a"] 2 f]]
      App(s_rand, <<I(1)>>),                                \* [rand 1]
      App(<<"+">>, <<I(1)>>),                               \* [+ 1]
      App(<<"+">>, <<I(1), S(<<"s">>)>>),                   \* [+ 1 "s"]
      App(<<"/">>, <<I(7), App(s_rand, <<>>)>>),            \* [/ 7 [rand]]
      App(s_len, <<I(5)>>),                                 \* [len 5]
      App(s_car, <<App(s_list, <<>>)>>),                    \* [car [list]]
      App(s_cdr, <<App(s_append, <<App(s_list, <<I(1)>>), App(s_list, <<S(<<"s">>)>>)>>)>>),
                                                 \* [cdr [append [list 1] [list "s"]]]
      App(s_pfmt, <<S(<<"{", "d", "}", "\\", "{", "{", "}">>), I(3)>>),
                                                 \* [pfmt "{d}\{{}" 3]
      L(<<N(s_define), fn_f>>)                                 \* [define f]
    }

\* The expressions of the programs that define, redefine and call at length:
\* f and al fall in the same slot of the table (str_hash is 15 modulo 47).
fn_al == N(<<"a", "l">>)

CoreExprs ==
    { Define(fn_f, <<Define(fn_f, <<I(2)>>), I(1)>>),       \* [define f [define f 2] 1]
      Define(fn_f, <<arg1, arg0>>),                         \* [define f :1 :0]
      Define(fn_al, <<arg0>>),                              \* [define al :0]
      Define(fn_g, <<Define(fn_f, <<App(<<"+">>, <<arg1, I(1)>>)>>),
                     App(<<"+">>, <<L(<<fn_f, I(5)>>), arg1>>)>>),
                                         \* [define g [define f [+ :1 1]] [+ [f 5] :1]]
      App(s_list, <<L(<<fn_f, I(4)>>), L(<<fn_al>>)>>),     \* [list [f 4] [al]]
      L(<<fn_g, I(3)>>)                                     \* [g 3]
    }

RECURSIVE SeqsOfLen(_, _)
SeqsOfLen(pool, n) ==
    IF n = 0 THEN {<<>>}
    ELSE {Append(p, e) : p \in SeqsOfLen(pool, n - 1), e \in pool}

\* The most children of a List that the list programs build.
MaxList == 2

\* [list e1 ... en] for up to MaxList operands, each 1 or [list "s"].
ListExprs ==
    {App(s_list, e) :
        e \in UNION {SeqsOfLen({I(1), App(s_list, <<S(<<"s">>)>>)}, n) : n \in 0..MaxList}}

\* [append A B], [car A] and [cdr A] for the Lists A and B of ListExprs.
ListPrograms ==
    {<<App(s_append, <<a, b>>)>> : a \in ListExprs, b \in ListExprs}
    \cup {<<App(op, <<a>>)>> : op \in {s_car, s_cdr}, a \in ListExprs}

\* The most pieces of a format that the format programs build.
MaxFmt == 2

\* The pieces of those formats: a directive, a directive with a width
\* argument, a plain byte, an escaped brace, a closing brace, and a brace with
\* the start of a body.
FmtPieces ==
    {<<"{", "}">>, <<"{", "*", "}">>, <<"a">>, <<"\\", "{">>, <<"}">>, <<"{", "b">>}

RECURSIVE Flat(_)
Flat(pieces) == IF pieces = <<>> THEN <<>> ELSE Head(pieces) \o Flat(Tail(pieces))

Formats == {Flat(p) : p \in UNION {SeqsOfLen(FmtPieces, n) : n \in 0..MaxFmt}}

\* The arguments after the format: none, too few, enough, and more than enough.
FmtArgs ==
    {<<>>, <<I(3)>>, <<S(<<"x">>)>>, <<I(3), S(<<"x">>)>>, <<S(<<>>)>>,
     <<S(<<>>), S(<<>>)>>, <<I(3), S(<<"x">>), I(4), S(<<"y", "z">>)>>}

\* [fmt F a ...] and [pfmt F a ...].
FmtPrograms ==
    {<<App(op, <<S(f)>> \o a)>> : op \in {s_fmt, s_pfmt}, f \in Formats, a \in FmtArgs}

Zeros(n) == [k \in 1..n |-> "0"]

\* [pfmt F 3] and [pfmt F] for formats whose directive fills the directive
\* buffer of do_fmt or needs one byte more: a body of BuffSize - 2 bytes that
\* ends in d, the same without the d, to which s is added, one of
\* BuffSize - 1 bytes, and one of BuffSize - 1 bytes that is never closed.
LongFmtPrograms ==
    { <<App(s_pfmt, <<S(<<"{">> \o Zeros(BuffSize - 3) \o <<"d", "}">>), I(3)>>)>>,
      <<App(s_pfmt, <<S(<<"{">> \o Zeros(BuffSize - 2) \o <<"}">>), I(3)>>)>>,
      <<App(s_pfmt, <<S(<<"{">> \o Zeros(BuffSize - 2) \o <<"d", "}">>), I(3)>>)>>,
      <<App(s_pfmt, <<S(<<"{">> \o Zeros(BuffSize - 2) \o <<"d", "}">>)>>)>>,
      <<App(s_fmt, <<S(<<"{">> \o Zeros(BuffSize - 1))>>)>>
    }

\* Programs with argument references: outside every function and inside one,
\* with a suffix that is an integer, that starts with one, or that is none.
RefPrograms ==
    { <<N(<<":", "x">>)>>,                                     \* :x
      <<N(<<":">>)>>,                                          \* :
      <<App(<<"+">>, <<arg0, I(1)>>)>>,                        \* [+ :0 1]
      <<App(s_list, <<I(1), N(<<":", "x">>)>>)>>,              \* [list 1 :x]
      <<L(<<arg0, I(1)>>)>>,                                   \* [:0 1]
      <<Define(fn_f, <<N(<<":", "x">>)>>), L(<<fn_f>>)>>,      \* [define f :x] [f]
      <<Define(fn_f, <<N(<<":">>)>>), L(<<fn_f, I(4)>>)>>,     \* [define f :] [f 4]
      <<Define(fn_f, <<N(<<":", "+", "1">>)>>), L(<<fn_f, I(4)>>)>>,
                                                               \* [define f :+1] [f 4]
      <<Define(fn_f, <<N(<<":", "1", "x">>)>>), L(<<fn_f, I(4)>>)>>,
                                                               \* [define f :1x] [f 4]
      <<Define(fn_f, <<App(s_list, <<arg1, N(<<":", "-">>)>>)>>), L(<<fn_f, I(4)>>)>>,
                                                               \* [define f [list :1 :-]] [f 4]
      <<Define(fn_f, <<arg1>>), L(<<fn_f, arg1>>)>>,           \* [define f :1] [f :1]
      <<Define(fn_g, <<arg1>>),
        Define(fn_f, <<L(<<fn_g, App(<<"+">>, <<arg1, I(1)>>)>>)>>),
        L(<<fn_f, I(5)>>)>>              \* [define g :1] [define f [g [+ :1 1]]] [f 5]
    }

\* The programs that define a function under the name of a built-in or of a
\* special form and then apply the name.
ShadowPrograms ==
    { <<Define(N(<<"+">>), <<I(1)>>), App(<<"+">>, <<I(1), I(2)>>)>>,
                                                               \* [define + 1] [+ 1 2]
      <<Define(N(s_list), <<I(7)>>), App(s_list, <<I(1)>>)>>,  \* [define list 7] [list 1]
      <<Define(N(s_print), <<Pfmt(<<"u">>)>>), App(s_print, <<I(1)>>)>>,
                                                       \* [define print [pfmt "u"]] [print 1]
      <<Define(N(s_if), <<Pfmt(<<"u">>)>>), If(<<I(0), I(1), I(2)>>)>>,
                                                       \* [define if [pfmt "u"]] [if 0 1 2]
      <<Define(N(s_define), <<I(7)>>), Define(fn_f, <<I(1)>>), L(<<fn_f>>)>>
                                               \* [define define 7] [define f 1] [f]
    }

\* The applications that stop after an argument has written the byte a.
WritesThenStops ==
    { App(<<"+">>, <<Pfmt(<<"a">>)>>),                         \* [+ [pfmt "a"]]
      App(s_len, <<Pfmt(<<"a">>)>>),                           \* [len [pfmt "a"]]
      L(<<N(<<"n", "o", "s", "u", "c", "h">>), Pfmt(<<"a">>)>>)  \* [nosuch [pfmt "a"]]
    }

\* The programs Init draws: an expression alone or after one definition,
\* every sequence of up to MaxProgLen of the core expressions, the list
\* programs, the programs with argument references and the format programs.
Programs ==
    {<<m>> : m \in MainExprs \cup DefExprs}
    \cup {<<d, m>> : d \in DefExprs, m \in MainExprs}
    \cup UNION {SeqsOfLen(CoreExprs, n) : n \in 0..MaxProgLen}
    \cup ListPrograms
    \cup RefPrograms
    \cup FmtPrograms
    \cup ShadowPrograms
    \cup LongFmtPrograms
    \cup {<<e>> : e \in WritesThenStops}

\* ------------------------------------------------------------ the parser

\* The place of the parser in the source: the cursor and the line counter.
Place(c, l) == [cursor |-> c, line |-> l]

RECURSIVE skip_space(_, _, _)
\* CLEAN, lines 262-265 and 268-271: white space is consumed, and the line
\* counter grows by one at each newline.
skip_space(src, c, l) ==
    IF isspace(At(src, c))
    THEN skip_space(src, c + 1, IF At(src, c) = "\n" THEN l + 1 ELSE l)
    ELSE Place(c, l)

RECURSIVE skip_comment(_, _)
\* CLEAN, line 267: the bytes of a comment, up to the newline or the end.
skip_comment(src, c) ==
    IF At(src, c) \notin {NUL, "\n"} THEN skip_comment(src, c + 1) ELSE c

RECURSIVE skip_comments(_, _)
\* CLEAN, lines 266-272: comments, each with the white space after it.
skip_comments(src, at) ==
    IF At(src, at.cursor) = ";"
    THEN skip_comments(src, skip_space(src, skip_comment(src, at.cursor), at.line))
    ELSE at

\* CLEAN()
CLEAN(src, c, l) == skip_comments(src, skip_space(src, c, l))

RECURSIVE scan_string(_, _, _)
\* parse_node, lines 338-341: the number of bytes after the opening quote up
\* to the end of the source or to a quote that no backslash precedes.
scan_string(src, c, i) ==
    IF /\ At(src, c + i) # NUL
       /\ (At(src, c + i) # "\"" \/ (i > 0 /\ At(src, c + i - 1) = "\\"))
    THEN scan_string(src, c, i + 1)
    ELSE i

\* parse_node, lines 347-368: the switch on the byte after a backslash.
escape(x) ==
    CASE x = "n" -> <<"\n">>
      [] x = "r" -> <<"\r">>
      [] x = "t" -> <<"\t">>
      [] x = "0" -> <<NUL>>
      [] x = "\"" -> <<"\"">>
      [] x = "\\" -> <<"\\">>
      [] OTHER -> <<"\\", x>>

RECURSIVE materialise(_, _, _, _)
\* parse_node, lines 344-375: the bytes stored for the bytes j .. i-1 after
\* the opening quote at offset c - 1.  A backslash stores nothing itself.
materialise(src, c, j, i) ==
    IF j >= i THEN <<>>
    ELSE (IF At(src, c + j) # "\\"
          THEN IF j > 0 /\ At(src, c + j - 1) = "\\"
               THEN escape(At(src, c + j))
               ELSE <<At(src, c + j)>>
          ELSE <<>>)
         \o materialise(src, c, j + 1, i)

RECURSIVE scan_name(_, _, _)
\* parse_node, lines 389-392: the length of a Name.
scan_name(src, c, i) ==
    IF At(src, c + i) # NUL /\ ~isspace(At(src, c + i)) /\ At(src, c + i) # "]"
    THEN scan_name(src, c, i + 1)
    ELSE i

\* What parse_node gives: the Node, the place of the parser after it, and the
\* source line of the ERROR it raised, or 0.
PNode(node, c, l, err) == [node |-> node, cursor |-> c, line |-> l, err |-> err]

\* parse_node, lines 307-316: an Int literal at offset c.
parse_int(src, c, l) ==
    PNode(make_int(strtoll(From(src, c)).val), c + strtoll(From(src, c)).end, l, 0)

\* parse_node, lines 334-385: a String literal whose opening quote is at
\* offset c, of i bytes.
parse_string(src, c, l, i) ==
    IF At(src, c + 1 + i) # "\""
    THEN PNode(make_node(INVALID), c + 1 + i, l, 382)
    ELSE PNode(make_string(materialise(src, c + 1, 0, i), 0), c + 2 + i, l, 0)

\* parse_node, lines 386-396: a Name at offset c.
parse_name(src, c, l) ==
    PNode(make_name(SubSeq(src, c + 1, c + scan_name(src, c, 0)), 0),
          c + scan_name(src, c, 0), l, 0)

RECURSIVE parse_node(_, _, _)
RECURSIVE parse_at(_, _)
RECURSIVE parse_children(_, _, _)
RECURSIVE parse_child(_, _, _)

\* parse_node, lines 329-333: after the loop and CLEAN, the closing bracket.
parse_close(src, at, children) ==
    IF At(src, at.cursor) # "]"
    THEN PNode(make_node(INVALID), at.cursor, at.line, 330)
    ELSE PNode(make_list(children, 0), at.cursor + 1, at.line, 0)

\* parse_node, lines 324-327: the loop of a List, at a place that CLEAN has
\* reached, with the children parsed so far.
parse_children(src, at, children) ==
    IF At(src, at.cursor) = "]"
    THEN parse_close(src, at, children)
    ELSE parse_child(src, children, parse_node(src, at.cursor, at.line))

\* parse_node, lines 324-327: a child has been parsed.
parse_child(src, children, child) ==
    IF child.err # 0 THEN child
    ELSE IF child.node.kind = INVALID
    THEN parse_close(src, CLEAN(src, child.cursor, child.line), children)
    ELSE parse_children(src, CLEAN(src, child.cursor, child.line),
                        Append(children, child.node))

\* parse_node, lines 304-399, at a place that CLEAN has reached.
parse_at(src, at) ==
    CASE At(src, at.cursor) = NUL ->
           PNode(make_node(INVALID), at.cursor, at.line, 0)
      [] \/ isdigit(At(src, at.cursor))
         \/ At(src, at.cursor) = "-" /\ isdigit(At(src, at.cursor + 1)) ->
           parse_int(src, at.cursor, at.line)
      [] At(src, at.cursor) = "[" ->
           parse_children(src, CLEAN(src, at.cursor + 1, at.line), <<>>)
      [] At(src, at.cursor) = "\"" ->
           parse_string(src, at.cursor, at.line, scan_string(src, at.cursor + 1, 0))
      [] At(src, at.cursor) = "]" ->
           PNode(make_node(INVALID), at.cursor, at.line, 398)
      [] OTHER -> parse_name(src, at.cursor, at.line)

\* parse_node()
parse_node(src, c, l) == parse_at(src, CLEAN(src, c, l))

\* -------------------------------------------------------------- the state

VARIABLES
    source,     \* the bytes of the mapped file
    cursor,     \* the parser's offset in source
    line,       \* the parser's line counter
    program,    \* the root Node, as parsed
    functions,  \* the symbol table of user-defined functions
    args,       \* the argument stack: one frame of Nodes per running user function
    out,        \* the bytes written to standard output
    status,     \* "parsing", "running", "done" (main returned 0), "error" (ERROR), "undefined"
    err,        \* the ERROR raised: its source line and the number it reports
    stack,      \* the C call stack: the running interpret(PROGRAM), apply, interpret_if
    ctl,        \* what runs next: the Node to interpret, or the Node just returned
    heap,       \* the storage in use
    log,        \* history: what the evaluator has done, in order
    nact,       \* history: the number of applications entered
    defined     \* history: name -> the body as written in the last define of name

\* The state of the parser.
parser == <<source, cursor, line>>

vars ==
    <<parser, program, functions, args, out, status, err, stack, ctl, heap, log, nact,
      defined>>

\* A frame of the C call stack.  fn is the function that runs; node its
\* argument; pc where it waits; i the child (or body expression) it waits for,
\* counted from 1; aid numbers the application.
Frame(fn, node, pc, i, aid) ==
    [fn |-> fn, node |-> node, pc |-> pc, i |-> i, aid |-> aid,
     evaluated_nodes |-> <<>>, apply_args |-> <<>>, fn_exprs |-> <<>>,
     result |-> make_node(INVALID),
     \* history: the body as written in the define in force when the call started
     body_at_call |-> <<>>]

Eval(node) == [tag |-> "eval", node |-> node]
Ret(node) == [tag |-> "ret", node |-> node]
Run == [tag |-> "run", node |-> make_node(INVALID)]

Event(ev, aid, k, s) == [ev |-> ev, aid |-> aid, k |-> k, s |-> s]

Top == stack[Len(stack)]
Pop(st) == SubSeq(st, 1, Len(st) - 1)
SetTop(fr) == [stack EXCEPT ![Len(stack)] = fr]

ErrPrefix ==
    <<"N", "i", "c", "k", "e", "l", ":", " ", "e", "r", "r", "o", "r", ":", " ">>

\* An exit with no diagnostic.
ERROR_quiet(site, info) ==
    /\ status' = "error"
    /\ err' = [line |-> site, info |-> info]
    /\ UNCHANGED <<parser, program, functions, args, out, stack, ctl, heap, nact, defined>>

\* ERROR(fmt, ...): the diagnostic is printed and the process exits.
ERROR(site, info) ==
    /\ status' = "error"
    /\ err' = [line |-> site, info |-> info]
    /\ out' = out \o ErrPrefix
    /\ UNCHANGED <<parser, program, functions, args, stack, ctl, heap, nact, defined>>

\* The behaviour is undefined from here on: the model follows it no further.
Undefined ==
    /\ status' = "undefined"
    /\ UNCHANGED <<parser, program, functions, args, out, err, stack, ctl, heap, nact, defined>>

\* main, lines 882-889: the tables are made and the whole file is parsed.
Init ==
    /\ source = <<>> /\ cursor = 0 /\ line = 1
    /\ \E p \in Programs :
           program = Parsed([make_node(PROGRAM) EXCEPT !.children = p], 0)
    /\ functions = hash_table_make
    /\ args = <<>>
    /\ out = <<>>
    /\ status = "running"
    /\ err = [line |-> 0, info |-> 0]
    /\ stack = <<>>
    /\ ctl = Eval(program)
    /\ heap = [EmptyHeap EXCEPT !.live = Ids(program), !.next = 1 + NAllocsSeq(program.children)]
    /\ log = <<>>
    /\ nact = 0
    /\ defined = [n \in {} |-> <<>>]

Running == status = "running"

\* The status the host sees: exit(__LINE__) and main's return 0, of which the
\* host keeps the low 8 bits; -1 while the process runs.
ExitStatus ==
    CASE status = "error" -> err.line % 256
      [] status = "done" -> 0
      [] OTHER -> -1

\* interpret, case PROGRAM, lines 824-829: the first child, if any.
InterpretProgram ==
    /\ Running /\ ctl.tag = "eval" /\ ctl.node.kind = PROGRAM
    /\ IF Len(ctl.node.children) = 0
       THEN /\ ctl' = Ret(make_node(INVALID))
            /\ UNCHANGED stack
       ELSE /\ stack' = Append(stack, Frame("interpret", ctl.node, "child", 1, 0))
            /\ ctl' = Eval(ctl.node.children[1])
    /\ UNCHANGED <<parser, program, functions, args, out, status, err, heap, log, nact, defined>>

\* interpret, case PROGRAM: a child has returned; its result is freed, and
\* after the last child the function returns val as it stands.
ProgramChildRet ==
    /\ Running /\ ctl.tag = "ret" /\ stack # <<>> /\ Top.fn = "interpret"
    /\ heap' = free_node(heap, ctl.node)
    /\ IF Top.i < Len(Top.node.children)
       THEN /\ stack' = SetTop([Top EXCEPT !.i = @ + 1])
            /\ ctl' = Eval(Top.node.children[Top.i + 1])
       ELSE /\ stack' = Pop(stack)
            /\ ctl' = Ret(ctl.node)
    /\ UNCHANGED <<parser, program, functions, args, out, status, err, log, nact, defined>>

\* main, lines 892-894: interpret(&program) has returned.
MainReturn ==
    /\ Running /\ ctl.tag = "ret" /\ stack = <<>>
    /\ status' = "done"
    /\ UNCHANGED <<parser, program, functions, args, out, err, stack, ctl, heap, log, nact, defined>>

IsArgRef(node) ==
    node.kind = NAME_ATOM /\ node.string # <<>> /\ Head(node.string) = ":"

\* interpret, cases INVALID, INT_ATOM, STRING_ATOM and NAME_ATOM without ':',
\* lines 821-823, 834-837 and 857-859.
InterpretAtom ==
    /\ Running /\ ctl.tag = "eval"
    /\ ctl.node.kind \in {INVALID, INT_ATOM, STRING_ATOM, NAME_ATOM}
    /\ ~IsArgRef(ctl.node)
    /\ IF ctl.node.kind = INVALID
       THEN ERROR(822, 0) /\ UNCHANGED log
       ELSE LET val == copy_node(ctl.node, heap.next)
            IN /\ ctl' = Ret(val)
               /\ heap' = Alloc(Read(heap, Ids(ctl.node)), Ids(val), NAllocs(ctl.node))
               /\ UNCHANGED <<parser, program, functions, args, out, status, err, stack,
                              log, nact, defined>>

\* What a read of the frame at a negative index may give: the process dies,
\* or the bytes before the array are taken for a Node -- one that owns
\* nothing, or one whose buffer is storage that is in use elsewhere.
OutOfBounds == {"crash", "garbage", "alias"}

\* Takes the frame at the bottom of the argument stack.
array_first(a) == a[1]

\* interpret, line 846: array_last(args), the frame of the running function.
array_last(a) == a[Len(a)]

\* A bounds check that takes the frame to hold the arguments only.
reference_invalid_strict(apply_args, idx) == Len(apply_args) <= idx + 1

\* A bounds check that compares the index as an unsigned number.
reference_invalid_unsigned(apply_args, idx) == idx < 0 \/ Len(apply_args) <= idx

\* interpret, line 852: array_len(*apply_args) <= idx, a comparison of signed
\* numbers.
reference_invalid(apply_args, idx) == Len(apply_args) <= idx

\* interpret, case NAME_ATOM with ':', lines 840-856.
InterpretArgRef ==
    /\ Running /\ ctl.tag = "eval" /\ IsArgRef(ctl.node)
    /\ LET idx == strtoll(From(ctl.node.string, 1))
           apply_args == array_last(args)
           h1 == Read(heap, {ctl.node.id})
       IN IF Len(args) = 0 THEN ERROR(842, 0) /\ UNCHANGED log
          ELSE IF idx.end = 0 THEN ERROR(849, 0) /\ UNCHANGED log
          ELSE IF reference_invalid(apply_args, idx.val)
          THEN ERROR(853, idx.val) /\ UNCHANGED log
          ELSE IF idx.val < 0
          THEN \E o \in OutOfBounds :
                   /\ log' = Append(log, Event("argref", 0, idx.val, <<o>>))
                   /\ IF o = "crash" THEN Undefined
                      ELSE /\ ctl' = Ret(IF o = "alias" THEN apply_args[1]
                                         ELSE make_node(INVALID))
                           /\ heap' = h1
                           /\ UNCHANGED <<parser, program, functions, args, out, status, err,
                                          stack, nact, defined>>
          ELSE LET val == copy_node(apply_args[idx.val + 1], h1.next)
               IN /\ ctl' = Ret(val)
                  /\ heap' = Alloc(Read(h1, Ids(apply_args[idx.val + 1])), Ids(val),
                                   NAllocs(apply_args[idx.val + 1]))
                  /\ log' = Append(log, Event("argref", 0, idx.val, <<>>))
                  /\ UNCHANGED <<parser, program, functions, args, out, status, err, stack,
                                 nact, defined>>

\* history: the head of a list as written, when it is a Name.
AsWritten(node) == IF node.kind = NAME_ATOM THEN node.string ELSE <<>>

\* interpret, case LIST, and apply, lines 625-630: the first child is interpreted.
ApplyEnter ==
    /\ Running /\ ctl.tag = "eval" /\ ctl.node.kind = LIST
    /\ Len(stack) <= MaxDepth
    /\ IF Len(ctl.node.children) < 1
       THEN ERROR(626, 0) /\ UNCHANGED log
       ELSE /\ nact' = nact + 1
            /\ stack' = Append(stack, Frame("apply", ctl.node, "first", 1, nact + 1))
            /\ ctl' = Eval(ctl.node.children[1])
            /\ heap' = Read(heap, {ctl.node.id})
            /\ log' = log \o <<Event("enter", nact + 1, Len(ctl.node.children) - 1,
                                     AsWritten(ctl.node.children[1])),
                               Event("eval", nact + 1, 0, <<>>)>>
            /\ UNCHANGED <<parser, program, functions, args, out, status, err, defined>>

\* The first child of the application on top of the stack has been interpreted.
AtFirst == Running /\ ctl.tag = "ret" /\ stack # <<>> /\ Top.fn = "apply" /\ Top.pc = "first"

\* Takes the name from the head of the list as it is written.
name_as_written(first, node) == AsWritten(node.children[1])

\* apply, line 636: name = first.name, the Name the first child evaluated to.
name_of(first, node) == first.string

\* history: the first child of application fr has evaluated to the Name first.
Decided(fr, first) == Event("first", fr.aid, 0, first.string)

\* apply, lines 632-634: the head of the list is not a Name.
ApplyHeadNotName ==
    /\ AtFirst /\ ctl.node.kind # NAME_ATOM
    /\ ERROR(633, 0) /\ UNCHANGED log

\* apply, lines 639-641, and interpret_if, lines 461-466: the arity check and
\* the condition.  interpret_if takes the place of apply on the stack, which
\* only hands its result on.
ApplyIf ==
    /\ AtFirst /\ ctl.node.kind = NAME_ATOM /\ name_of(ctl.node, Top.node) = s_if
    /\ LET h1 == free_node(Read(heap, {ctl.node.id}), ctl.node)
       IN IF Len(Top.node.children) < 3
          THEN /\ ERROR(462, 0)
               /\ log' = log \o <<Decided(Top, ctl.node), Event("if", Top.aid, 0, <<>>)>>
          ELSE /\ stack' = SetTop([Top EXCEPT !.fn = "interpret_if", !.pc = "cond", !.i = 2])
               /\ ctl' = Eval(Top.node.children[2])
               /\ heap' = h1
               /\ log' = log \o <<Decided(Top, ctl.node), Event("if", Top.aid, 0, <<>>),
                                  Event("eval", Top.aid, 1, <<>>)>>
               /\ UNCHANGED <<parser, program, functions, args, out, status, err, nact, defined>>

\* Takes the first branch whatever the condition.
branch_then(val, n) == 2

\* interpret_if, lines 475-481: the child interpreted for the condition val
\* in an if of n children, or 0 when the form returns the Int 0.
branch(val, n) == IF val # 0 THEN 2 ELSE IF n >= 4 THEN 3 ELSE 0

\* interpret_if, lines 467-481: the condition has been interpreted.
IfCondRet ==
    /\ Running /\ ctl.tag = "ret" /\ stack # <<>>
    /\ Top.fn = "interpret_if" /\ Top.pc = "cond"
    /\ LET cond == ctl.node
           val == cond.integer
           n == Len(Top.node.children)
           h1 == free_node(heap, cond)
           seen == Event("cond", Top.aid, val, <<>>)
       IN IF cond.kind # INT_ATOM
          THEN ERROR(470, 0) /\ UNCHANGED log
          ELSE IF branch(val, n) # 0
          THEN LET k == branch(val, n)
               IN /\ stack' = SetTop([Top EXCEPT !.pc = "branch", !.i = k + 1])
                  /\ ctl' = Eval(Top.node.children[k + 1])
                  /\ heap' = h1
                  /\ log' = log \o <<seen, Event("eval", Top.aid, k, <<>>)>>
                  /\ UNCHANGED <<parser, program, functions, args, out, status, err, nact, defined>>
          ELSE /\ stack' = Pop(stack)
               /\ ctl' = Ret(make_int(0))
               /\ heap' = h1
               /\ log' = Append(log, seen)
               /\ UNCHANGED <<parser, program, functions, args, out, status, err, nact, defined>>

\* interpret_if, lines 476 and 478: the branch has returned, and so does the form.
IfBranchRet ==
    /\ Running /\ ctl.tag = "ret" /\ stack # <<>>
    /\ Top.fn = "interpret_if" /\ Top.pc = "branch"
    /\ stack' = Pop(stack)
    /\ UNCHANGED <<parser, program, functions, args, out, status, err, ctl, heap, log, nact, defined>>

\* apply, lines 642-644, and interpret_define.
ApplyDefine ==
    /\ AtFirst /\ ctl.node.kind = NAME_ATOM /\ name_of(ctl.node, Top.node) = s_define
    /\ LET h1 == free_node(Read(heap, {ctl.node.id}), ctl.node)
           d == interpret_define(Top.node, functions, h1)
           key == d.name.string
       IN IF Len(Top.node.children) < 3
          THEN /\ ERROR(498, 0)
               /\ log' = log \o <<Decided(Top, ctl.node), Event("define", Top.aid, 0, <<>>)>>
          ELSE IF ~d.ok
          THEN /\ Undefined
               /\ log' = log \o <<Decided(Top, ctl.node), Event("define", Top.aid, 0, <<>>)>>
          ELSE /\ functions' = d.functions
               /\ heap' = d.heap
               /\ stack' = Pop(stack)
               /\ ctl' = Ret(d.name)
               /\ log' = log \o <<Decided(Top, ctl.node), Event("define", Top.aid, 0, key)>>
               /\ defined' = [n \in DOMAIN defined \cup {key} |->
                                 IF n = key THEN StripSeq(From(Top.node.children, 2))
                                 ELSE defined[n]]
               /\ UNCHANGED <<parser, program, args, out, status, err, nact>>

\* Applies the function at once, whatever arguments are left to interpret.
AfterArgument_lazy(fr, ev, seen) ==
    /\ stack' = SetTop([fr EXCEPT !.pc = "dispatch", !.evaluated_nodes = ev])
    /\ ctl' = Run
    /\ log' = log \o seen

\* apply, lines 650-653: the next argument to interpret, or the application
\* itself; seen is what history records before it.
AfterArgument(fr, ev, seen) ==
    IF fr.i < Len(fr.node.children)
    THEN /\ stack' = SetTop([fr EXCEPT !.pc = "args", !.i = @ + 1,
                                        !.evaluated_nodes = ev])
         /\ ctl' = Eval(fr.node.children[fr.i + 1])
         /\ log' = log \o seen \o <<Event("eval", fr.aid, fr.i, <<>>)>>
    ELSE /\ stack' = SetTop([fr EXCEPT !.pc = "dispatch", !.evaluated_nodes = ev])
         /\ ctl' = Run
         /\ log' = log \o seen

\* apply, lines 647-653: the name is no special form; the evaluated nodes
\* start with it and the arguments are interpreted from the left.
ApplyArguments ==
    /\ AtFirst /\ ctl.node.kind = NAME_ATOM
    /\ name_of(ctl.node, Top.node) \notin {s_if, s_define}
    /\ AfterArgument(Top, <<ctl.node>>, <<Decided(Top, ctl.node)>>)
    /\ heap' = Read(heap, {ctl.node.id})
    /\ UNCHANGED <<parser, program, functions, args, out, status, err, nact, defined>>

\* apply, lines 650-653: an argument has been interpreted.
ApplyArgRet ==
    /\ Running /\ ctl.tag = "ret" /\ stack # <<>> /\ Top.fn = "apply" /\ Top.pc = "args"
    /\ AfterArgument(Top, Append(Top.evaluated_nodes, ctl.node), <<>>)
    /\ UNCHANGED <<parser, program, functions, args, out, status, err, heap, nact, defined>>

\* Every argument of the application on top of the stack has been interpreted.
AtDispatch == Running /\ ctl.tag = "run" /\ stack # <<>> /\ Top.fn = "apply" /\ Top.pc = "dispatch"

\* apply, lines 801-806: the evaluated nodes are freed and result is returned.
ApplyReturn(h, result) ==
    /\ heap' = free_nodes(h, Top.evaluated_nodes)
    /\ stack' = Pop(stack)
    /\ ctl' = Ret(result)

\* What apply does with the Outcome o of a built-in.
BuiltinDone(o) ==
    IF o.line # 0 THEN ERROR(o.line, o.info)
    ELSE IF ~o.ok THEN Undefined
    ELSE /\ ApplyReturn(o.heap, o.result)
         /\ out' = out \o o.written
         /\ UNCHANGED <<parser, program, functions, args, status, err, nact, defined>>

\* apply, lines 655-758: the name is that of a built-in.
ApplyBuiltin ==
    /\ AtDispatch /\ Top.evaluated_nodes[1].string \in BuiltinNames
    /\ \E r \in IF Top.evaluated_nodes[1].string = s_rand THEN RandVals ELSE {0} :
           BuiltinDone(apply_builtin(Top.evaluated_nodes[1].string,
                                     Top.evaluated_nodes, heap, r))
    /\ log' = Append(log, Event("builtin", Top.aid, Len(Top.evaluated_nodes) - 1,
                                Top.evaluated_nodes[1].string))

\* Removes the frame below the top of the argument stack as well.
args_pop_two(a) == SubSeq(a, 1, Len(a) - 2)

\* array_pop(args), line 792.
args_pop(a) == SubSeq(a, 1, Len(a) - 1)

\* Walks the body stored in the table itself.
body_of_table(val, base) == val

\* apply, lines 775-779: fn_exprs, a deep copy of the body found in the table.
body_copy(val, base) == CopySeq(val, base)

\* apply, lines 759-786: the name is in the symbol table.  The frame of copies
\* of the evaluated nodes is pushed, the body is copied and its first
\* expression is interpreted.
ApplyUser ==
    /\ AtDispatch /\ Top.evaluated_nodes[1].string \notin BuiltinNames
    /\ LET name == Top.evaluated_nodes[1].string
           lookup == hash_table_get_val(functions, name)
           h0 == Read(heap, ChainKeyIds(functions, name))
           apply_args == CopySeq(Top.evaluated_nodes, h0.next)
           h1 == Alloc(Read(h0, IdsSeq(Top.evaluated_nodes)), IdsSeq(apply_args),
                       NAllocsSeq(Top.evaluated_nodes))
           fn_exprs == body_copy(lookup.val, h1.next)
           h2 == Alloc(Read(h1, IdsSeq(lookup.val)), IdsSeq(fn_exprs),
                       NAllocsSeq(lookup.val))
       IN /\ lookup.found
          /\ args' = Append(args, apply_args)
          /\ stack' = SetTop([Top EXCEPT !.pc = "body", !.i = 1,
                                         !.apply_args = apply_args,
                                         !.fn_exprs = fn_exprs,
                                         !.result = make_node(INVALID),
                                         !.body_at_call =
                                             IF name \in DOMAIN defined
                                             THEN defined[name] ELSE <<>>])
          /\ ctl' = Eval(fn_exprs[1])
          /\ heap' = h2
          /\ log' = log \o <<Event("user", Top.aid, Len(Top.evaluated_nodes) - 1, name),
                             Event("body", Top.aid, 1, <<>>)>>
          /\ UNCHANGED <<parser, program, functions, out, status, err, nact, defined>>

\* apply, lines 797-799: the name is neither a built-in nor in the table.
ApplyUnknown ==
    /\ AtDispatch /\ Top.evaluated_nodes[1].string \notin BuiltinNames
    /\ ~hash_table_get_val(functions, Top.evaluated_nodes[1].string).found
    /\ ERROR(798, 0)
    /\ log' = Append(log, Event("unknown", Top.aid, Len(Top.evaluated_nodes) - 1,
                                Top.evaluated_nodes[1].string))

\* Keeps the result of the first expression of the body.
body_result_first(previous, value) ==
    IF previous.kind # INVALID THEN previous ELSE value

\* apply, line 786: result = interpret(it).
body_result(previous, value) == value

\* apply, lines 782-806: a body expression has returned.  The expression is
\* freed; before the next one the previous result is freed; after the last
\* one the frame is popped and freed and the result is returned.
ApplyBodyRet ==
    /\ Running /\ ctl.tag = "ret" /\ stack # <<>> /\ Top.fn = "apply" /\ Top.pc = "body"
    /\ LET result == body_result(Top.result, ctl.node)
           h1 == free_node(heap, Top.fn_exprs[Top.i])
       IN IF Top.i < Len(Top.fn_exprs)
          THEN /\ heap' = IF result.kind # INVALID THEN free_node(h1, result) ELSE h1
               /\ stack' = SetTop([Top EXCEPT !.i = @ + 1, !.result = result])
               /\ ctl' = Eval(Top.fn_exprs[Top.i + 1])
               /\ log' = Append(log, Event("body", Top.aid, Top.i + 1, <<>>))
               /\ UNCHANGED args
          ELSE /\ args' = args_pop(args)
               /\ ApplyReturn(free_nodes(h1, Top.apply_args), result)
               /\ log' = Append(log, Event("return", Top.aid, 0, <<>>))
    /\ UNCHANGED <<parser, program, functions, out, status, err, nact, defined>>

Next ==
    \/ InterpretProgram
    \/ ProgramChildRet
    \/ MainReturn
    \/ InterpretAtom
    \/ InterpretArgRef
    \/ ApplyEnter
    \/ ApplyHeadNotName
    \/ ApplyIf
    \/ IfCondRet
    \/ IfBranchRet
    \/ ApplyDefine
    \/ ApplyArguments
    \/ ApplyArgRet
    \/ ApplyBuiltin
    \/ ApplyUser
    \/ ApplyUnknown
    \/ ApplyBodyRet

Spec == Init /\ [][Next]_vars

\* ------------------------------------------------------- main, from a file

\* The longest body of a String literal, and the most digits of an Int
\* literal, among the files the model reads.
MaxLit == 3
MaxDigits == 2

\* The bytes a String literal is made of: a plain byte, the backslash, the
\* quote, and the bytes that mean something after a backslash.
LitBytes == {"a", "\\", "\"", "n", "t", "r", "0"}

\* A file that holds a quote, up to MaxLit bytes and a quote.
StringTexts ==
    {<<"\"">> \o b \o <<"\"">> :
        b \in UNION {SeqsOfLen(LitBytes, n) : n \in 0..MaxLit}}

\* A file that holds an Int literal: up to MaxDigits digits, after a minus
\* sign or not.
IntTexts ==
    {sign \o d : sign \in {<<>>, <<"-">>},
                 d \in UNION {SeqsOfLen({"0", "1", "9"}, n) : n \in 1..MaxDigits}}

\* Files with white space, comments, Lists, definitions and errors.
ProgramTexts ==
    {
      \* the empty file
      <<>>,
      \*  <newline>; only a comment
      <<" ", "\n", ";", " ", "o", "n", "l", "y", " ", "a", " ", "c", "o",
        "m", "m", "e", "n", "t">>,
      \* [define f :0 [+ :0 1]]<newline>[pfmt "{}\n" [f 2]] ; done
      <<"[", "d", "e", "f", "i", "n", "e", " ", "f", " ", ":", "0", " ", "[",
        "+", " ", ":", "0", " ", "1", "]", "]", "\n", "[", "p", "f", "m",
        "t", " ", "\"", "{", "}", "\\", "n", "\"", " ", "[", "f", " ", "2",
        "]", "]", " ", ";", " ", "d", "o", "n", "e">>,
      \* [if 1 2 3] [if 0 2]
      <<"[", "i", "f", " ", "1", " ", "2", " ", "3", "]", " ", "[", "i", "f",
        " ", "0", " ", "2", "]">>,
      \* [if "a" 2]
      <<"[", "i", "f", " ", "\"", "a", "\"", " ", "2", "]">>,
      \* [1 2]
      <<"[", "1", " ", "2", "]">>,
      \* [nope 1]
      <<"[", "n", "o", "p", "e", " ", "1", "]">>,
      \* ; c<newline><newline>[car [list]]
      <<";", " ", "c", "\n", "\n", "[", "c", "a", "r", " ", "[", "l", "i",
        "s", "t", "]", "]">>,
      \* [
      <<"[">>,
      \* [1 "a
      <<"[", "1", " ", "\"", "a">>,
      \* <newline>]
      <<"\n", "]">>,
      \* "a
      <<"\"", "a">>,
      \* :1
      <<":", "1">>,
      \* [list 1 "a" b]<newline>[append [list] 2]
      <<"[", "l", "i", "s", "t", " ", "1", " ", "\"", "a", "\"", " ", "b",
        "]", "\n", "[", "a", "p", "p", "e", "n", "d", " ", "[", "l", "i",
        "s", "t", "]", " ", "2", "]">>,
      \* -5 -a 12ab<tab>7
      <<"-", "5", " ", "-", "a", " ", "1", "2", "a", "b", "\t", "7">>,
      \* [ 1<newline>  2 ; two<newline>
      <<"[", " ", "1", "\n", " ", " ", "2", " ", ";", " ", "t", "w", "o", "\n">>,
      \* [define g 1 2 3] [g]<newline>[g 4 5]
      <<"[", "d", "e", "f", "i", "n", "e", " ", "g", " ", "1", " ", "2", " ",
        "3", "]", " ", "[", "g", "]", "\n", "[", "g", " ", "4", " ", "5", "]">>,
      \* [+ 1]
      <<"[", "+", " ", "1", "]">>,
      \* [if]
      <<"[", "i", "f", "]">>,
      \* [define]
      <<"[", "d", "e", "f", "i", "n", "e", "]">>,
      \* [pfmt "{}"]
      <<"[", "p", "f", "m", "t", " ", "\"", "{", "}", "\"", "]">>,
      \* []
      <<"[", "]">>,
      \* [fmt]
      <<"[", "f", "m", "t", "]">>,
      \* [fmt 1]
      <<"[", "f", "m", "t", " ", "1", "]">>,
      \* [pfmt]
      <<"[", "p", "f", "m", "t", "]">>,
      \* [pfmt 1]
      <<"[", "p", "f", "m", "t", " ", "1", "]">>,
      \* [define f :x] [f]
      <<"[", "d", "e", "f", "i", "n", "e", " ", "f", " ", ":", "x", "]", " ",
        "[", "f", "]">>,
      \* [define f :3] [f 1]
      <<"[", "d", "e", "f", "i", "n", "e", " ", "f", " ", ":", "3", "]", " ",
        "[", "f", " ", "1", "]">>,
      \* "a<newline>b" ]
      <<"\"", "a", "\n", "b", "\"", " ", "]">>,
      \* "<newline>
      <<"\"", "\n">>,
      \* [pfmt "a"] ]
      <<"[", "p", "f", "m", "t", " ", "\"", "a", "\"", "]", " ", "]">>,
      \* [pfmt "a"]<newline>[print 1
      <<"[", "p", "f", "m", "t", " ", "\"", "a", "\"", "]", "\n", "[", "p",
        "r", "i", "n", "t", " ", "1">>
    }

Texts == StringTexts \cup IntTexts \cup ProgramTexts

\* main, lines 875-884: the file is mapped and the tables are made.  mmap
\* refuses a length of 0, so that an empty file is reported as one that cannot
\* be opened.
InitMain ==
    /\ source \in Texts /\ cursor = 0 /\ line = 1
    /\ program = make_node(PROGRAM)
    /\ functions = hash_table_make
    /\ args = <<>>
    /\ out = IF source = <<>> THEN ErrPrefix ELSE <<>>
    /\ status = IF source = <<>> THEN "error" ELSE "parsing"
    /\ err = [line |-> IF source = <<>> THEN 876 ELSE 0, info |-> 0]
    /\ stack = <<>>
    /\ ctl = Run
    /\ heap = EmptyHeap
    /\ log = <<>>
    /\ nact = 0
    /\ defined = [n \in {} |-> <<>>]

Parsing == status = "parsing"

\* A main that hands each Node to interpret as soon as it is parsed.
Pushed_eager(r) ==
    /\ r.err = 0 /\ r.node.kind # INVALID
    /\ program' = [program EXCEPT !.children = Append(@, r.node)]
    /\ cursor' = r.cursor
    /\ line' = r.line
    /\ log' = Append(log, Event("eval", 0, Len(program.children) + 1, <<>>))
    /\ UNCHANGED <<source, functions, args, out, status, err, stack, ctl, heap, nact,
                   defined>>

\* main, lines 887-889: parse_node has given the Node r.node, and it is pushed.
Pushed(r) ==
    /\ r.err = 0 /\ r.node.kind # INVALID
    /\ program' = [program EXCEPT !.children = Append(@, r.node)]
    /\ cursor' = r.cursor
    /\ line' = r.line
    /\ UNCHANGED <<source, functions, args, out, status, err, stack, ctl, heap, log, nact,
                   defined>>

ParseExpression == Parsing /\ Pushed(parse_node(source, cursor, line))

\* parse_node has raised the ERROR of source line r.err, which reports r.line.
Failed(r) ==
    /\ r.err # 0
    /\ ERROR(r.err, r.line)
    /\ UNCHANGED log

ParseError == Parsing /\ Failed(parse_node(source, cursor, line))

\* main, lines 887-892: parse_node has found the end of the file, and
\* interpret(&program) starts.
Ended(r) ==
    /\ r.err = 0 /\ r.node.kind = INVALID
    /\ cursor' = r.cursor
    /\ line' = r.line
    /\ program' = Parsed(program, 0)
    /\ ctl' = Eval(program')
    /\ heap' = [EmptyHeap EXCEPT !.live = Ids(program'),
                                 !.next = 1 + NAllocsSeq(program'.children)]
    /\ status' = "running"
    /\ UNCHANGED <<source, functions, args, out, err, stack, log, nact, defined>>

ParseEnd == Parsing /\ Ended(parse_node(source, cursor, line))

NextMain ==
    \/ ParseExpression
    \/ ParseError
    \/ ParseEnd
    \/ Next

Main == InitMain /\ [][NextMain]_vars

\* ------------------------------------------------------------ properties

\* The positions of the history at which application a had its child with
\* index k or more interpreted.
EvalsFrom(a, k) ==
    {q \in 1..Len(log) : log[q].ev = "eval" /\ log[q].aid = a /\ log[q].k >= k}

\* The frames of the call stack that walk the body of a user function.
BodyFrames ==
    {d \in 1..Len(stack) : stack[d].fn = "apply" /\ stack[d].pc = "body"}

\* C1: in an if whose condition has evaluated to an Int, at most one branch
\* is interpreted, and it is interpreted right after the condition: the
\* second child when the Int is not zero, the third when it is zero and the
\* form has one.  The branch an if waits for is the one chosen, and no other
\* child of the form is handed to interpret.
C1_OnlySelectedBranch ==
    /\ \A p \in 1..Len(log) :
           log[p].ev = "cond" =>
               /\ EvalsFrom(log[p].aid, 2) \subseteq {p + 1}
               /\ \A q \in EvalsFrom(log[p].aid, 2) :
                      log[q].k = IF log[p].k # 0 THEN 2 ELSE 3
    /\ \A d \in 1..Len(stack) :
           stack[d].fn = "interpret_if" /\ stack[d].pc = "branch" =>
               /\ \E p \in 1..Len(log) :
                      /\ log[p].ev = "cond" /\ log[p].aid = stack[d].aid
                      /\ stack[d].i = IF log[p].k # 0 THEN 3 ELSE 4
               /\ d = Len(stack) /\ ctl.tag = "eval" =>
                      ctl.node = stack[d].node.children[stack[d].i]

\* C1: [if 0 [u] 42] has run to its end: the condition was 0, the third child
\* gave 42 and no unknown function was met.
C1_Witness ==
    /\ status = "done"
    /\ ctl.node.kind = INT_ATOM /\ ctl.node.integer = 42
    /\ \E p \in 1..Len(log) : log[p].ev = "cond" /\ log[p].k = 0
    /\ \E p \in 1..Len(log) : log[p].ev = "eval" /\ log[p].k = 3
    /\ \A p \in 1..Len(log) : log[p].ev # "unknown"

\* The name of the function whose body frame d of the call stack walks.
Callee(d) == stack[d].evaluated_nodes[1].string

\* C2: a running call walks a copy of the body that was in force when the
\* call started, whatever has been defined since: the expressions it walks are
\* those of that body, the ones still to come are storage in use, and none of
\* them is storage of the function table; and a call that starts walks the
\* body of the last define of its name.
C2_SelfRedefinition ==
    \A d \in BodyFrames :
        /\ StripSeq(stack[d].fn_exprs) = stack[d].body_at_call
        /\ IdsSeq(SubSeq(stack[d].fn_exprs, stack[d].i, Len(stack[d].fn_exprs)))
               \subseteq heap.live
        /\ IdsSeq(stack[d].fn_exprs) \cap TableIds(functions) = {}
        /\ log[Len(log)] = Event("body", stack[d].aid, 1, <<>>) =>
               /\ Callee(d) \in DOMAIN defined
               /\ StripSeq(stack[d].fn_exprs) = defined[Callee(d)]

\* C2: a call of f is walking the second expression of its body after the
\* first one has redefined f with another body.
C2_Witness ==
    \E d \in BodyFrames :
        /\ stack[d].i = 2
        /\ \E p \in 1..Len(log) :
               /\ log[p].ev = "define" /\ log[p].s = Callee(d)
               /\ log[p].aid > stack[d].aid
        /\ defined[Callee(d)] # stack[d].body_at_call

\* The frames of the argument stack are those of the calls that walk a body,
\* from the outermost to the innermost.
RECURSIVE FramesOf(_)
FramesOf(d) ==
    IF d = 0 THEN <<>>
    ELSE IF d \in BodyFrames THEN Append(FramesOf(d - 1), stack[d].apply_args)
    ELSE FramesOf(d - 1)

\* C3: while the run has not aborted, the argument stack holds one frame for
\* each user function that is running, in the order of the calls and with the
\* contents pushed at entry; built-ins and special forms add none; and it is
\* empty when a top-level expression has returned.
C3_ArgsDepth ==
    status \in {"running", "done"} =>
        /\ Len(args) = Cardinality(BodyFrames)
        /\ args = FramesOf(Len(stack))
        /\ ctl.tag = "ret" /\ Len(stack) <= 1 => args = <<>>

\* C3: a call made from the body of a user function has returned, and the
\* frame on top of the argument stack is again the caller's.
C3_Witness ==
    /\ status = "running" /\ ctl.tag = "ret"
    /\ log # <<>> /\ log[Len(log)].ev = "return"
    /\ Len(args) = 1
    /\ \E d \in BodyFrames : args[1] = stack[d].apply_args /\ stack[d].aid < log[Len(log)].aid

\* The innermost frame of the call stack that walks the body of a function.
Innermost == stack[CHOOSE d \in BodyFrames : \A e \in BodyFrames : e <= d]

\* The index a reference holds: what strtoll makes of the bytes after ':'.
IndexOf(node) == strtoll(From(node.string, 1))

\* A reference with an index that is not negative is about to be interpreted
\* inside a user function.
AtReference ==
    /\ Running /\ ctl.tag = "eval" /\ IsArgRef(ctl.node)
    /\ BodyFrames # {}
    /\ IndexOf(ctl.node).end # 0 /\ IndexOf(ctl.node).val >= 0

\* C4: inside the body of a user function applied to n arguments, :0 gives a
\* copy of the Name of the function, :i for 1 <= i <= n a copy of the i-th
\* evaluated argument, in storage of its own, and :k for k >= n+1 aborts with
\* the error of the bounds check.
C4_ArgumentReference ==
    [][AtReference =>
         LET idx == IndexOf(ctl.node).val
             given == Innermost.evaluated_nodes
         IN IF idx >= Len(given)
            THEN status' = "error" /\ err' = [line |-> 853, info |-> idx]
            ELSE /\ status' = "running" /\ ctl'.tag = "ret"
                 /\ Strip(ctl'.node) = Strip(given[idx + 1])
                 /\ idx = 0 =>
                        /\ ctl'.node.kind = NAME_ATOM
                        /\ hash_table_get_val(functions, ctl'.node.string).found
                 /\ Ids(ctl'.node) \cap heap.live = {}
                 /\ Ids(ctl'.node) \subseteq heap'.live]_vars

\* C4: inside a function applied to one argument, a reference to the second
\* argument has just raised the error of the bounds check.
C4_Witness ==
    /\ status = "error" /\ err = [line |-> 853, info |-> 2]
    /\ BodyFrames # {} /\ Len(Innermost.evaluated_nodes) = 2
    /\ \E p \in 1..Len(log) : log[p].ev = "argref" /\ log[p].k = 0
    /\ \E p \in 1..Len(log) : log[p].ev = "argref" /\ log[p].k = 1

RECURSIVE EvalOrder(_, _)
\* The indices of the children of application a that were handed to
\* interpret, in the order of the first n entries of the history.
EvalOrder(a, n) ==
    IF n = 0 THEN <<>>
    ELSE IF log[n].ev = "eval" /\ log[n].aid = a
    THEN Append(EvalOrder(a, n - 1), log[n].k)
    ELSE EvalOrder(a, n - 1)

\* 0, 1, ..., n
UpTo(n) == [i \in 1..(n + 1) |-> i - 1]

\* The entries of the history that apply a function to evaluated arguments.
Applied == {"builtin", "user", "unknown"}

\* Application a has not been taken for a special form.
Ordinary(a) ==
    \A p \in 1..Len(log) : log[p].aid = a => log[p].ev \notin {"if", "define"}

\* C5: in an application that is no special form, the children are handed to
\* interpret from the left, each one once; when the function is applied (a
\* built-in, a user function, or the unknown-function error) every argument
\* has been interpreted before, and none is interpreted after.
C5_ArgumentsLeftToRight ==
    \A p \in 1..Len(log) :
        log[p].ev = "enter" /\ Ordinary(log[p].aid) =>
            LET a == log[p].aid
                n == log[p].k
                order == EvalOrder(a, Len(log))
            IN /\ order = UpTo(Len(order) - 1)
               /\ Len(order) <= n + 1
               /\ \A q \in 1..Len(log) :
                      log[q].aid = a /\ log[q].ev \in Applied =>
                          /\ EvalOrder(a, q) = UpTo(n)
                          /\ order = UpTo(n)
                          /\ log[q].k = n

\* C5: [u [pfmt "a"] [pfmt "b"]] has written a, then b, and only then raised
\* the unknown-function error.
C5_Witness ==
    /\ status = "error" /\ err.line = 798
    /\ out = <<"a", "b">> \o ErrPrefix
    /\ \E q \in 1..Len(log) : log[q].ev = "unknown" /\ log[q].k = 2

\* The keys of the slots of the function table, chain after chain.
Keys(t) == [k \in 1..Len(Slots(t)) |-> Slots(t)[k].key]

\* C7: the function table holds one entry for each name that has been
\* defined and no other; the entry of a name is the body, all the expressions
\* after the name in order, of the last define of that name; the entry of a
\* name changes only in a step that defines that name; and the table stays
\* below the length at which _insert would rebuild it.
C7_OneEntryPerName ==
    /\ [](/\ \A i, j \in 1..Len(Keys(functions)) :
                 Keys(functions)[i] = Keys(functions)[j] => i = j
          /\ {Keys(functions)[i] : i \in 1..Len(Keys(functions))} = DOMAIN defined
          /\ functions.len = Len(Keys(functions))
          /\ functions.len < ht_load_thresh
          /\ \A n \in DOMAIN defined :
                 StripSeq(hash_table_get_val(functions, n).val) = defined[n])
    /\ [][\A n \in DOMAIN defined :
              \/ hash_table_get_val(functions', n) = hash_table_get_val(functions, n)
              \/ log'[Len(log')] = Event("define", Top.aid, 0, n)]_vars

\* C7: f has been defined twice while al, whose entry is in the same chain of
\* the table, is defined; the entry of f is the body of the second define.
C7_Witness ==
    /\ Cardinality({p \in 1..Len(log) : log[p].ev = "define" /\ log[p].s = fn_f.string}) >= 2
    /\ hash_table_get_val(functions, fn_al.string).found
    /\ ht_idx(fn_al.string) = ht_idx(fn_f.string)
    /\ log[Len(log)].ev = "define" /\ log[Len(log)].s = fn_f.string
    /\ StripSeq(hash_table_get_val(functions, fn_f.string).val) = defined[fn_f.string]

\* The entries of the history that hand an application to a special form.
Special == {"if", "define"}

\* C9, as the specification words it: an application is handed to if or to
\* define exactly when its first child as written is the Name if or define,
\* and no child of the list has been interpreted when that is decided.
C9_DispatchOnWrittenHead ==
    \A p \in 1..Len(log) :
        log[p].ev = "enter" =>
            \A q \in 1..Len(log) :
                log[q].aid = log[p].aid =>
                    /\ log[q].ev \in Special => EvalOrder(log[p].aid, q) = <<>>
                    /\ log[q].ev = "if" => log[p].s = s_if
                    /\ log[q].ev = "define" => log[p].s = s_define
                    /\ log[q].ev \in Applied => log[p].s \notin {s_if, s_define}

\* C9, amended: the decision is taken on the Name the first child evaluates
\* to.  When it is taken the first child has been interpreted, once, and no
\* other child; the application goes to if exactly when that Name is if, to
\* define exactly when it is define, and to the evaluation of the arguments
\* otherwise.
C9_DispatchOnEvaluatedHead ==
    /\ \A p \in 1..Len(log) :
           log[p].ev = "first" =>
               /\ EvalOrder(log[p].aid, p) = <<0>>
               /\ IF log[p].s \in {s_if, s_define}
                  THEN /\ p < Len(log)
                       /\ log[p + 1].aid = log[p].aid
                       /\ log[p].s = s_if <=> log[p + 1].ev = "if"
                       /\ log[p].s = s_define <=> log[p + 1].ev = "define"
                  ELSE Ordinary(log[p].aid)
    /\ \A q \in 1..Len(log) :
           log[q].ev \in Special \cup Applied =>
               \E p \in 1..(q - 1) : log[p].ev = "first" /\ log[p].aid = log[q].aid

\* C9: in the body of g called as [g if 9], the list [:1 0 [pfmt "t"] :2] has
\* been handed to if because :1 evaluated to the Name if; the form has given
\* 9 and written nothing.
C9_Witness ==
    /\ \E p, q \in 1..Len(log) :
           /\ log[p].ev = "enter" /\ log[p].s = arg1.string
           /\ log[q].ev = "if" /\ log[q].aid = log[p].aid
           /\ log[q - 1] = Event("first", log[p].aid, 0, s_if)
    /\ out = <<>>
    /\ status = "done" /\ ctl.node.kind = INT_ATOM /\ ctl.node.integer = 9

\* The storage of the parse tree, of the function table and of the frames of
\* the argument stack.
Owned ==
    Ids(program) \cup TableIds(functions)
        \cup UNION {IdsSeq(args[k]) : k \in 1..Len(args)}

\* C6: a Node that interpret returns is a fresh deep copy: its storage is in
\* use and is none of the parse tree, of the function table or of a frame of
\* the argument stack; and in a run that has not aborted no storage has been
\* freed twice and none has been read after it was freed.
C6_FreshCopies ==
    /\ Running /\ ctl.tag = "ret" =>
           /\ Ids(ctl.node) \subseteq heap.live
           /\ Ids(ctl.node) \cap Owned = {}
    /\ status \in {"running", "done"} =>
           ~heap.double_free /\ ~heap.use_after_free

\* C8: interpret of the Program node returns a Node of kind Invalid, whatever
\* the number of its children, and the results of the children are freed.
C8_ProgramReturnsInvalid ==
    ctl.tag = "ret" /\ stack = <<>> =>
        /\ ctl.node.kind = INVALID
        /\ Ids(ctl.node) \cap heap.live = {}

\* The kinds of the arguments of the built-ins that take a fixed number of
\* them, as the specification tables them.
Required(name) ==
    CASE name \in IntOps -> <<INT_ATOM, INT_ATOM>>
      [] name = s_append -> <<LIST, LIST>>
      [] name \in {s_len, s_car, s_cdr} -> <<LIST>>
      [] name = s_print -> <<ANY>>
      [] OTHER -> <<>>

\* The built-ins that take a fixed number of arguments.
FixedArity == IntOps \cup {s_append, s_len, s_car, s_cdr, s_print, s_rand}

\* The arguments among the evaluated nodes ev that are not of the kind required.
WrongKinds(ev, kinds) ==
    {i \in 1..Len(kinds) : kinds[i] # ANY /\ ev[i + 1].kind # kinds[i]}

\* C10: a built-in of fixed arity applied to another number of arguments
\* aborts with the arity error, rand with its arity 0 included; applied to the
\* right number of arguments of which one has another kind than required, it
\* aborts with the kind error that tells the index of such an argument.
C10_FixedArity ==
    [][AtDispatch /\ Top.evaluated_nodes[1].string \in FixedArity =>
         LET ev == Top.evaluated_nodes
             kinds == Required(ev[1].string)
         IN /\ Len(ev) - 1 # Len(kinds) =>
                   status' = "error" /\ err'.line = 433
            /\ Len(ev) - 1 = Len(kinds) /\ WrongKinds(ev, kinds) # {} =>
                   /\ status' = "error" /\ err'.line = 443
                   /\ err'.info \in WrongKinds(ev, kinds)]_vars

RECURSIVE Unescape(_)
\* The bytes a literal's body stands for when its escapes are read from left
\* to right, two bytes at a time.
Unescape(b) ==
    IF b = <<>> THEN <<>>
    ELSE IF Head(b) = "\\" /\ Len(b) >= 2
    THEN escape(b[2]) \o Unescape(SubSeq(b, 3, Len(b)))
    ELSE <<Head(b)>> \o Unescape(Tail(b))

\* The body of the String literal that opens the file: the bytes between the
\* opening quote and the first quote that no backslash precedes.
FirstBody == SubSeq(source, 2, 1 + scan_string(source, 1, 0))

\* The file opens with a String literal, and parse_node has stored it.
FirstIsString ==
    /\ At(source, 0) = "\""
    /\ program.children # <<>>
    /\ program.children[1].kind = STRING_ATOM

\* C11: the bytes stored for a String literal are its body with each of \n,
\* \r, \t, \0, \" and \\ replaced by the one byte it names, every other pair
\* of a backslash and a byte kept as the two bytes, and every other byte
\* copied.
C11_Escapes ==
    FirstIsString => program.children[1].string = Unescape(FirstBody)

\* The same kind and the same payload.
SameNode(a, b) ==
    /\ a.kind = b.kind
    /\ a.integer = b.integer
    /\ CStr(a.string) = CStr(b.string)

\* The Node that parse_node gives for the text the printer writes for node.
Reparsed(node) == parse_node(node_to_string(node), 0, 1).node

\* The first expression of the file has been parsed.
FirstParsed == program.children # <<>>

OnLists(name, n) ==
    /\ AtDispatch
    /\ Top.evaluated_nodes[1].string = name
    /\ Len(Top.evaluated_nodes) = n + 1
    /\ \A k \in 2..(n + 1) : Top.evaluated_nodes[k].kind = LIST

\* The step returns a Node in storage of its own.
ReturnsFresh ==
    /\ status' = "running"
    /\ ctl'.tag = "ret"
    /\ Ids(ctl'.node) \cap IdsSeq(Top.evaluated_nodes) = {}
    /\ Ids(ctl'.node) \cap heap.live = {}
    /\ Ids(ctl'.node) \subseteq heap'.live

\* The values the application on top of the stack was given: the children of
\* its k-th argument.
Given(k) == Top.evaluated_nodes[k + 1].children

\* C13: append of two Lists returns a List of the children of the first and
\* then those of the second, in order, so that its length is the sum of
\* theirs and append with an empty List gives a value equal to the other
\* List; the arguments are read, not changed: the result is in storage of its
\* own and the argument stack and the symbol table stay as they are.
C13_Append ==
    [][OnLists(s_append, 2) =>
          /\ ReturnsFresh
          /\ ctl'.node.kind = LIST
          /\ StripSeq(ctl'.node.children) = StripSeq(Given(1) \o Given(2))
          /\ Len(ctl'.node.children) = Len(Given(1)) + Len(Given(2))
          /\ Given(1) = <<>> => Strip(ctl'.node) = Strip(Top.evaluated_nodes[3])
          /\ Given(2) = <<>> => Strip(ctl'.node) = Strip(Top.evaluated_nodes[2])
          /\ ~heap'.use_after_free /\ ~heap'.double_free
          /\ args' = args /\ functions' = functions]_vars

\* [append [list 1 [list "s"]] [list [list "s"] 1]] has just returned the four
\* children.
C13_Witness ==
    /\ log # <<>>
    /\ log[Len(log)].ev = "builtin" /\ log[Len(log)].s = s_append
    /\ ctl.tag = "ret"
    /\ Strip(ctl.node) = L(<<I(1), L(<<S(<<"s">>)>>), L(<<S(<<"s">>)>>), I(1)>>)

\* C14: car of a List with a first child returns a copy of that child, and
\* car of the empty List stops with the error of line 723; cdr returns a List
\* of copies of the children after the first, in order, one fewer than the
\* List has, and the empty List for the empty List.
C14_CarCdr ==
    [][/\ OnLists(s_car, 1) /\ Given(1) # <<>>
            => ReturnsFresh /\ Strip(ctl'.node) = Strip(Given(1)[1])
       /\ OnLists(s_car, 1) /\ Given(1) = <<>>
            => status' = "error" /\ err'.line = 723
       /\ OnLists(s_cdr, 1)
            => /\ ReturnsFresh
               /\ ctl'.node.kind = LIST
               /\ StripSeq(ctl'.node.children)
                      = StripSeq(SubSeq(Given(1), 2, Len(Given(1))))
               /\ Given(1) # <<>> => Len(ctl'.node.children) = Len(Given(1)) - 1
               /\ Given(1) = <<>> => ctl'.node.children = <<>>]_vars

\* [car [list [list "s"] 1]] has just returned ["s"].
C14_Witness ==
    /\ log # <<>>
    /\ log[Len(log)].ev = "builtin" /\ log[Len(log)].s = s_car
    /\ ctl.tag = "ret"
    /\ Strip(ctl.node) = L(<<S(<<"s">>)>>)
    /\ Strip(program.children[1].children[2])
           = App(s_list, <<App(s_list, <<S(<<"s">>)>>), I(1)>>)

\* The source lines of the uses of ERROR.
ErrorSites ==
    {310, 330, 382, 398, 433, 443, 462, 470, 498, 572, 626, 633, 723, 744, 747,
     752, 755, 798, 822, 842, 849, 853, 872, 876}

\* The last n bytes written to standard output.
LastOut(n) == SubSeq(out, Len(out) - n + 1, Len(out))

\* C15: when the process has stopped on an error, the last thing written
\* starts with `Nickel: error: ` and the exit status, the low 8 bits of the
\* source line of the error site, is not 0; when the whole file has been
\* parsed and evaluated without error, the exit status is 0.
C15_ExitStatus ==
    /\ status = "error" =>
           /\ Len(out) >= Len(ErrPrefix) /\ LastOut(Len(ErrPrefix)) = ErrPrefix
           /\ err.line \in ErrorSites
           /\ ExitStatus = err.line % 256
           /\ ExitStatus \in 1..255
    /\ status = "done" =>
           /\ ExitStatus = 0
           /\ err.line = 0
           /\ cursor = Len(source) /\ stack = <<>>
    /\ status \in {"parsing", "running"} => ExitStatus = -1

\* [nope 1] has stopped on the error of line 798, which the host sees as 30.
C15_Witness ==
    /\ status = "error"
    /\ err.line = 798
    /\ ExitStatus = 30
    /\ out = ErrPrefix
    /\ source = <<"[", "n", "o", "p", "e", " ", "1", "]">>

\* The text starts with a decimal integer: digits, after a sign or not.
StartsWithInteger(s) ==
    \/ s # <<>> /\ isdigit(s[1])
    \/ Len(s) >= 2 /\ s[1] \in {"-", "+"} /\ isdigit(s[2])

\* A Name that begins with `:` is about to be evaluated.
AtArgRef == Running /\ ctl.tag = "eval" /\ IsArgRef(ctl.node)

\* C16: evaluating a Name that begins with `:` while the argument stack is
\* empty stops with the error of line 842, whatever the suffix is; while the
\* stack is not empty, a suffix that does not start with a decimal integer
\* stops with the error of line 849.
C16_ArgRefErrors ==
    [][AtArgRef =>
          /\ args = <<>> => status' = "error" /\ err'.line = 842
          /\ args # <<>> /\ ~StartsWithInteger(Tail(ctl.node.string))
                 => status' = "error" /\ err'.line = 849]_vars

\* [list 1 :x] at top level has stopped on the error of line 842: the suffix x,
\* which is no integer, was not looked at.
C16_Witness ==
    /\ status = "error" /\ err.line = 842
    /\ args = <<>>
    /\ ctl.tag = "eval" /\ Strip(ctl.node) = N(<<":", "x">>)
    /\ stack # <<>> /\ Top.fn = "apply"
    /\ Top.evaluated_nodes # <<>> /\ Top.evaluated_nodes[1].string = s_list

\* fmt or pfmt is about to format: its first argument is a String.
AtFormat ==
    /\ AtDispatch
    /\ Top.evaluated_nodes[1].string \in {s_fmt, s_pfmt}
    /\ Len(Top.evaluated_nodes) >= 2
    /\ Top.evaluated_nodes[2].kind = STRING_ATOM

\* The format and the arguments after it.
TheFormat == Top.evaluated_nodes[2].string
TheRest == SubSeq(Top.evaluated_nodes, 3, Len(Top.evaluated_nodes))

\* The position (from 1) of the first "}" of fmt after position k, or 0.
CloseAfter(fmt, k) ==
    IF \A j \in (k + 1)..Len(fmt) : fmt[j] # "}" THEN 0
    ELSE CHOOSE j \in (k + 1)..Len(fmt) :
             fmt[j] = "}" /\ \A i \in (k + 1)..(j - 1) : fmt[i] # "}"

\* Position k of fmt holds a backslash that escapes the brace after it.
EscapesBrace(fmt, k) == fmt[k] = "\\" /\ k < Len(fmt) /\ fmt[k + 1] = "{"

\* The number of arguments the directive with this body takes.
Takes(body) == IF \E x \in 1..Len(body) : body[x] = "*" THEN 2 ELSE 1

\* The text of a directive {} or {*} on the arguments it takes; plain is
\* FALSE for any other directive, and for a width that is no Int.
DirectiveText(body, taken) ==
    CASE body = <<>> ->
           [plain |-> TRUE, chars |-> node_to_string(taken[1])]
      [] body = <<"*">> /\ taken[1].kind = INT_ATOM /\ taken[1].integer >= 0 ->
           [plain |-> TRUE,
            chars |-> Spaces(taken[1].integer - Len(node_to_string(taken[2])))
                      \o node_to_string(taken[2])]
      [] OTHER -> [plain |-> FALSE, chars |-> <<>>]

\* What the reading of a format gives: whether an argument was missing,
\* whether every directive was {} or {*}, and the bytes.
Reading(missing, plain, chars) == [missing |-> missing, plain |-> plain, chars |-> chars]

\* The bytes `first` before the reading r.
After(first, r) == [r EXCEPT !.chars = first \o @]

\* The directive text t before the reading r.
AfterDirective(t, r) == [r EXCEPT !.chars = t.chars \o @, !.plain = @ /\ t.plain]

RECURSIVE Rendered(_, _, _)
\* The format read from position k on with the arguments `rest` left: the
\* directives take their arguments from left to right.
Rendered(fmt, k, rest) ==
    IF k > Len(fmt) THEN Reading(FALSE, TRUE, <<>>)
    ELSE IF EscapesBrace(fmt, k) THEN After(<<"{">>, Rendered(fmt, k + 2, rest))
    ELSE IF fmt[k] # "{" THEN After(<<fmt[k]>>, Rendered(fmt, k + 1, rest))
    ELSE IF CloseAfter(fmt, k) = 0 THEN Reading(FALSE, TRUE, <<>>)
    ELSE IF Len(rest) < Takes(SubSeq(fmt, k + 1, CloseAfter(fmt, k) - 1))
    THEN Reading(TRUE, TRUE, <<>>)
    ELSE AfterDirective(
             DirectiveText(SubSeq(fmt, k + 1, CloseAfter(fmt, k) - 1), rest),
             Rendered(fmt, CloseAfter(fmt, k) + 1,
                      SubSeq(rest, Takes(SubSeq(fmt, k + 1, CloseAfter(fmt, k) - 1)) + 1,
                             Len(rest))))

\* The step returns the String of these bytes, and pfmt writes them.
Formats_(chars) ==
    /\ status' = "running"
    /\ ctl'.tag = "ret" /\ ctl'.node.kind = STRING_ATOM /\ ctl'.node.string = chars
    /\ out' = IF Top.evaluated_nodes[1].string = s_pfmt THEN out \o chars ELSE out

\* The step stops on the missing-argument error.
MissingArgument == status' = "error" /\ err'.line = 572

\* C17: the terminated directives of a format take the arguments after it
\* from left to right, one for a body without "*" and two, the width and then
\* the value, for a body with one; a directive that finds fewer arguments left
\* than it takes stops the run with the error of line 572; arguments that no
\* directive takes are ignored.
C17_DirectivesTakeArguments ==
    [][AtFormat /\ status' # "undefined" =>
          /\ Rendered(TheFormat, 1, TheRest).missing <=> MissingArgument
          /\ (~Rendered(TheFormat, 1, TheRest).missing
                  /\ Rendered(TheFormat, 1, TheRest).plain)
                 => Formats_(Rendered(TheFormat, 1, TheRest).chars)]_vars

\* [pfmt "{*}{}" 3 "x" 4 "yz"] has written x in a field of 3 and then 4; the
\* last argument was not used.
C17_Witness ==
    /\ log # <<>> /\ log[Len(log)].ev = "builtin" /\ log[Len(log)].s = s_pfmt
    /\ log[Len(log)].k = 5
    /\ Strip(program.children[1].children[2]) = S(<<"{", "*", "}", "{", "}">>)
    /\ out = <<" ", " ", "x", "4">>
    /\ ctl.tag = "ret" /\ ctl.node.string = <<" ", " ", "x", "4">>

RECURSIVE LiteralOnly(_, _)
\* The format from position k on without its directives, with each escaped
\* brace for the two bytes that escape it.
LiteralOnly(fmt, k) ==
    IF k > Len(fmt) THEN <<>>
    ELSE IF EscapesBrace(fmt, k) THEN <<"{">> \o LiteralOnly(fmt, k + 2)
    ELSE IF fmt[k] # "{" THEN <<fmt[k]>> \o LiteralOnly(fmt, k + 1)
    ELSE IF CloseAfter(fmt, k) = 0 THEN <<>>
    ELSE LiteralOnly(fmt, CloseAfter(fmt, k) + 1)

\* Every brace that opens in fmt is escaped.
NoDirective(fmt) ==
    \A k \in 1..Len(fmt) : fmt[k] = "{" => k > 1 /\ fmt[k - 1] = "\\"

\* Every argument after the format is the empty String.
AllEmpty(rest) == \A k \in 1..Len(rest) : rest[k] = [rest[k] EXCEPT !.kind = STRING_ATOM, !.string = <<>>]

\* C18: a brace after a backslash opens no directive and takes no argument:
\* the brace is written and the backslash is not; every byte that is in no
\* directive and is no such backslash is written as it is, in order.  So a
\* format whose braces are all escaped is written whatever the arguments are,
\* and a format whose directives all expand to nothing is written without
\* them.
C18_EscapedBrace ==
    [][AtFormat =>
          /\ NoDirective(TheFormat) => Formats_(LiteralOnly(TheFormat, 1))
          /\ AllEmpty(TheRest) /\ status' = "running"
                 => Formats_(LiteralOnly(TheFormat, 1))]_vars

\* [pfmt "\{}" "x"] has written {} and used no argument.
C18_Witness ==
    /\ log # <<>> /\ log[Len(log)].ev = "builtin" /\ log[Len(log)].s = s_pfmt
    /\ Strip(program.children[1].children[2]) = S(<<"\\", "{", "}">>)
    /\ Len(program.children[1].children) = 3
    /\ out = <<"{", "}">>
    /\ ctl.tag = "ret" /\ ctl.node.string = <<"{", "}">>

\* The application on top of the stack is about to run a user function.
AtUserCall ==
    /\ AtDispatch
    /\ Top.evaluated_nodes[1].string \notin BuiltinNames
    /\ hash_table_get_val(functions, Top.evaluated_nodes[1].string).found

\* The number of arguments the running user function was applied to.
Supplied == Len(Innermost.evaluated_nodes) - 1

\* C19: the application of a user function to any number of arguments starts
\* its body without an error; inside a function, a reference :N with N >= 0
\* stops with an error exactly when N is greater than the number of arguments
\* of the running call, and the error of the bounds check arises nowhere else.
C19_AnyArity ==
    [][/\ AtUserCall =>
              /\ status' = "running"
              /\ Len(args') = Len(args) + 1
              /\ Len(args'[Len(args')]) = Len(Top.evaluated_nodes)
       /\ AtReference => (status' = "error" <=> IndexOf(ctl.node).val > Supplied)
       /\ status # "error" /\ status' = "error" /\ err'.line = 853
              => AtReference /\ IndexOf(ctl.node).val > Supplied]_vars

\* [define f 1] [f 4]: a function that uses no argument was applied to one
\* and has returned.
C19_Witness ==
    /\ status = "done"
    /\ Len(program.children) = 2
    /\ Strip(program.children[1]) = Define(fn_f, <<I(1)>>)
    /\ Strip(program.children[2]) = L(<<fn_f, I(4)>>)
    /\ \E p \in 1..Len(log) : log[p].ev = "user" /\ log[p].k = 1 /\ log[p].s = <<"f">>
    /\ \E p \in 1..Len(log) : log[p].ev = "return"

RECURSIVE BodySteps(_, _)
\* The indices of the body expressions that application a has handed to
\* interpret, in the order of the first n entries of the history.
BodySteps(a, n) ==
    IF n = 0 THEN <<>>
    ELSE IF log[n].ev = "body" /\ log[n].aid = a
    THEN Append(BodySteps(a, n - 1), log[n].k)
    ELSE BodySteps(a, n - 1)

\* An expression of the body of the function on top of the stack has returned.
AtBodyReturn ==
    Running /\ ctl.tag = "ret" /\ stack # <<>> /\ Top.fn = "apply" /\ Top.pc = "body"

\* C20: a call of a user function interprets the expressions of the body, as
\* they were given to define, one after the other from the first, each once;
\* the result of an expression that is not the last is freed before the next
\* one is interpreted, and the result of the last is what the call returns.
C20_BodyInOrder ==
    /\ [](\A d \in BodyFrames :
              /\ StripSeq(stack[d].fn_exprs) = stack[d].body_at_call
              /\ stack[d].i \in 1..Len(stack[d].fn_exprs)
              /\ BodySteps(stack[d].aid, Len(log)) = [k \in 1..stack[d].i |-> k])
    /\ [][AtBodyReturn =>
              IF Top.i < Len(Top.fn_exprs)
              THEN /\ ctl' = Eval(Top.fn_exprs[Top.i + 1])
                   /\ Len(stack') = Len(stack)
                   /\ Ids(ctl.node) \cap heap'.live = {}
              ELSE /\ ctl' = Ret(ctl.node)
                   /\ stack' = Pop(stack)
                   /\ BodySteps(Top.aid, Len(log)) = [k \in 1..Len(Top.body_at_call) |-> k]]_vars

\* [define f [define f 2] 1] [f]: the call has interpreted both expressions
\* of the body and has just returned 1, the result of the second.
C20_Witness ==
    /\ log # <<>> /\ log[Len(log)].ev = "return"
    /\ BodySteps(log[Len(log)].aid, Len(log)) = <<1, 2>>
    /\ ctl = Ret(I(1))
    /\ Strip(program.children[1]) = Define(fn_f, <<Define(fn_f, <<I(2)>>), I(1)>>)

\* The head of the application on top of the stack has evaluated to `if`.
AtIf == AtFirst /\ ctl.node.kind = NAME_ATOM /\ name_of(ctl.node, Top.node) = s_if

\* The condition of the if on top of the stack has returned.
AtCondition ==
    /\ Running /\ ctl.tag = "ret" /\ stack # <<>>
    /\ Top.fn = "interpret_if" /\ Top.pc = "cond"

\* The positions of the history at which application a had its condition
\* interpreted.
CondEvals(a) == {q \in 1..Len(log) : log[q].ev = "eval" /\ log[q].aid = a /\ log[q].k = 1}

\* The applications that were taken for an if.
Ifs == {log[p].aid : p \in {q \in 1..Len(log) : log[q].ev = "if"}}

\* C21: an if with fewer than two operands stops with the error of line 462
\* and its condition is not interpreted; otherwise the condition is
\* interpreted once, before any branch; a condition that is no Int stops with
\* the error of line 470 and no branch is interpreted; a condition of 0 in an
\* if without a third operand returns the Int 0.
C21_IfForm ==
    /\ [](\A a \in Ifs :
              /\ Cardinality(CondEvals(a)) <= 1
              /\ \A q \in EvalsFrom(a, 2) : \E c \in CondEvals(a) : c < q)
    /\ [][/\ AtIf /\ Len(Top.node.children) < 3
                => /\ status' = "error" /\ err'.line = 462
                   /\ out' = out \o ErrPrefix
                   /\ \A q \in 1..Len(log') :
                          log'[q].aid = Top.aid /\ log'[q].ev = "eval" => log'[q].k = 0
          /\ AtIf /\ Len(Top.node.children) >= 3
                => /\ status' = "running"
                   /\ ctl' = Eval(Top.node.children[2])
          /\ AtCondition /\ ctl.node.kind # INT_ATOM
                => /\ status' = "error" /\ err'.line = 470
                   /\ \A q \in 1..Len(log') :
                          log'[q].aid = Top.aid /\ log'[q].ev = "eval" => log'[q].k < 2
          /\ (AtCondition /\ ctl.node.kind = INT_ATOM /\ ctl.node.integer = 0
                  /\ Len(Top.node.children) = 3)
                => /\ ctl' = Ret(make_int(0))
                   /\ stack' = Pop(stack)
                   /\ \A q \in 1..Len(log') :
                          log'[q].aid = Top.aid /\ log'[q].ev = "eval" => log'[q].k < 2]_vars

\* [if 0 1] has returned the Int 0 without interpreting its second operand.
C21_Witness ==
    /\ program.children # <<>>
    /\ Strip(program.children[Len(program.children)]) = If(<<I(0), I(1)>>)
    /\ log # <<>> /\ log[Len(log)].ev = "cond" /\ log[Len(log)].k = 0
    /\ EvalsFrom(log[Len(log)].aid, 2) = {}
    /\ ctl = Ret(make_int(0))

\* A reference with a negative index is about to be interpreted inside a
\* user function.
AtNegativeReference ==
    /\ AtArgRef /\ args # <<>>
    /\ IndexOf(ctl.node).end # 0 /\ IndexOf(ctl.node).val < 0

\* C22: inside a user function, a reference with a negative index raises no
\* error: the bounds check lets it through and the frame is read at that
\* index, before its first Node.
C22_NegativeIndex ==
    [][AtNegativeReference =>
          /\ status' # "error"
          /\ err' = err
          /\ log' = Append(log, log'[Len(log')])
          /\ log'[Len(log')].ev = "argref"
          /\ log'[Len(log')].k = IndexOf(ctl.node).val
          /\ log'[Len(log')].s \in {<<o>> : o \in OutOfBounds}]_vars

\* [define k :-1] [k 1]: the body of k has read its frame at the index -1.
C22_Witness ==
    /\ log # <<>>
    /\ log[Len(log)].ev = "argref" /\ log[Len(log)].k = -1
    /\ status # "error"
    /\ BodyFrames # {} /\ Callee(Len(stack)) = <<"k">>
    /\ Len(Innermost.apply_args) = 2

\* The number of newline bytes among the first c bytes of src.
Newlines(src, c) == Cardinality({k \in 1..c : k <= Len(src) /\ src[k] = "\n"})

\* What the next call of parse_node by main gives.
NextNode == parse_node(source, cursor, line)

\* C23: in every state of the parser the line counter is 1 plus the number
\* of newline bytes before the cursor, and the line that a syntax error
\* reports is 1 plus the number of newline bytes before the cursor at the
\* error.
C23_LineCount ==
    /\ [](Parsing => line = 1 + Newlines(source, cursor))
    /\ [][(Parsing /\ NextNode.err # 0) =>
              err'.info = 1 + Newlines(source, NextNode.cursor)]_vars

\* The source lines of the ERRORs of parse_node.
SyntaxErrors == {310, 330, 382, 398}

\* C24: nothing is evaluated while the source is being parsed, and a syntax
\* error anywhere in the source, even after complete expressions, ends the
\* program with no expression evaluated and no output but the error message.
C24_ParseBeforeEval ==
    /\ [](Parsing => log = <<>> /\ out = <<>> /\ stack = <<>> /\ ctl = Run)
    /\ []((status = "error" /\ err.line \in SyntaxErrors) =>
              log = <<>> /\ out = ErrPrefix)
    /\ [][(Parsing /\ NextNode.err # 0) =>
              status' = "error" /\ log' = <<>> /\ out' = ErrPrefix]_vars
    /\ [][(status # "running" /\ status' = "running") =>
              /\ Parsing /\ NextNode.err = 0 /\ NextNode.node.kind = INVALID
              /\ NextNode.cursor = Len(source)
              /\ status' = "running" /\ ctl' = Eval(program')]_vars

\* [pfmt "a"] ]: the first expression was parsed and pushed, and the stray
\* bracket after it ended the program before anything was printed.
C24_Witness ==
    /\ status = "error" /\ err.line = 398
    /\ Len(program.children) = 1
    /\ program.children[1].kind = LIST
    /\ cursor = 10
    /\ log = <<>> /\ out = ErrPrefix

\* The frames of the call stack that are applications of a user function
\* whose arguments are still being interpreted.
PendingCalls ==
    {d \in 1..Len(stack) :
        /\ stack[d].fn = "apply" /\ stack[d].pc = "args"
        /\ stack[d].evaluated_nodes[1].string \notin BuiltinNames
        /\ hash_table_get_val(functions, stack[d].evaluated_nodes[1].string).found}

\* The body frames of the call stack, from the outermost.
RECURSIVE BodyFramesUpTo(_)
BodyFramesUpTo(d) ==
    IF d = 0 THEN <<>>
    ELSE IF d \in BodyFrames THEN Append(BodyFramesUpTo(d - 1), d)
    ELSE BodyFramesUpTo(d - 1)

\* C25: the frame of a call is pushed only when every argument of the call
\* has been interpreted, so the frames on the argument stack are exactly
\* those of the applications walking their bodies; a reference interpreted
\* while a call of a user function still awaits arguments stops the program
\* when no body is being walked, and otherwise gives the Node of the frame
\* of the innermost body being walked, which lies below the awaiting call;
\* a reference in the body of the callee gives the Node of the new frame.
C25_ArgumentsInCallersFrame ==
    /\ [](/\ Len(args) = Cardinality(BodyFrames)
          /\ \A j \in 1..Len(args) :
                 args[j] = stack[BodyFramesUpTo(Len(stack))[j]].apply_args)
    /\ [][Len(args') > Len(args) =>
              /\ AtUserCall
              /\ Len(Top.evaluated_nodes) = Len(Top.node.children)
              /\ args' = Append(args, args'[Len(args')])
              /\ StripSeq(args'[Len(args')]) = StripSeq(Top.evaluated_nodes)
              /\ BodyFrames' = BodyFrames \cup {Len(stack)}]_vars
    /\ [][AtArgRef =>
              IF BodyFrames = {}
              THEN status' = "error" /\ err'.line = 842
              ELSE /\ \A e \in PendingCalls : Innermost # stack[e]
                   /\ \A e \in PendingCalls : \E d \in BodyFrames :
                          d < e /\ Innermost = stack[d]
                   /\ (IndexOf(ctl.node).end # 0
                       /\ IndexOf(ctl.node).val \in 0..(Len(Innermost.apply_args) - 1))
                      => Strip(ctl'.node) =
                             Strip(Innermost.apply_args[IndexOf(ctl.node).val + 1])]_vars

\* [define g :1] [define f [g [+ :1 1]]] [f 5]: the :1 in the argument of g
\* gave the 5 of the frame of f, and the :1 in the body of g has just given
\* the 6 of the frame of g.
C25_Witness ==
    /\ status = "running" /\ ctl.tag = "ret" /\ Strip(ctl.node) = I(6)
    /\ Len(args) = 2
    /\ StripSeq(args[1]) = <<fn_f, I(5)>>
    /\ StripSeq(args[2]) = <<fn_g, I(6)>>
    /\ Top.fn = "apply" /\ Top.pc = "body" /\ Callee(Len(stack)) = <<"g">>
    /\ log[Len(log)].ev = "argref"

\* The names of the built-ins and of the special forms.
Reserved ==
    IntOps \cup {s_list, s_len, s_append, s_car, s_cdr, s_rand, s_print, s_fmt, s_pfmt,
                 s_if, s_define}

\* A define is about to be carried out.
AtDefine == AtFirst /\ ctl.node.kind = NAME_ATOM /\ name_of(ctl.node, Top.node) = s_define

\* The table holds a function under the name.
Stored(name) == hash_table_get_val(functions, name).found

\* C26: a define of a built-in or special-form name goes through and stores
\* its body in the table, yet an application of a stored name of that kind
\* is still carried out by the built-in or the special form: no frame is
\* pushed, no body is walked, and the history holds no call of a user
\* function under such a name.
C26_ReservedNames ==
    /\ [][(/\ AtDefine /\ Len(Top.node.children) >= 3
           /\ Top.node.children[2].kind = NAME_ATOM
           /\ Top.node.children[2].string \in Reserved) =>
              /\ status' = "running"
              /\ hash_table_get_val(functions', Top.node.children[2].string).found
              /\ StripSeq(hash_table_get_val(functions', Top.node.children[2].string).val)
                     = StripSeq(From(Top.node.children, 2))]_vars
    /\ [][(/\ AtDispatch /\ Top.evaluated_nodes[1].string \in Reserved
           /\ Stored(Top.evaluated_nodes[1].string)) =>
              /\ args' = args /\ BodyFrames' = BodyFrames
              /\ log'[Len(log')] = Event("builtin", Top.aid, Len(Top.evaluated_nodes) - 1,
                                         Top.evaluated_nodes[1].string)]_vars
    /\ [][(AtIf /\ Stored(s_if) /\ Len(Top.node.children) >= 3) =>
              /\ args' = args /\ BodyFrames' = BodyFrames
              /\ stack' = SetTop([Top EXCEPT !.fn = "interpret_if", !.pc = "cond", !.i = 2])
              /\ ctl' = Eval(Top.node.children[2])]_vars
    /\ [][(AtDefine /\ Stored(s_define) /\ Len(Top.node.children) >= 3
           /\ Top.node.children[2].kind = NAME_ATOM) =>
              /\ args' = args /\ BodyFrames' = BodyFrames
              /\ hash_table_get_val(functions', Top.node.children[2].string).found]_vars
    /\ [](\A p \in 1..Len(log) : log[p].ev = "user" => log[p].s \notin Reserved)

\* [define + 1] [+ 1 2]: the table holds a function named +, and the
\* application has returned the sum 3 through the built-in.
C26_Witness ==
    /\ Stored(<<"+">>)
    /\ StripSeq(hash_table_get_val(functions, <<"+">>).val) = <<I(1)>>
    /\ ctl = Ret(I(3))
    /\ log[Len(log)] = Event("builtin", log[Len(log)].aid, 2, <<"+">>)
    /\ \A p \in 1..Len(log) : log[p].ev # "user"

\* The source lines of the ERRORs of check and of the unknown function.
DispatchErrors == {433, 443, 798}

\* Every operand of the application on top of the stack has been handed to
\* interpret, and its value is among the evaluated nodes.
AllEvaluated ==
    /\ Len(Top.evaluated_nodes) = Len(Top.node.children)
    /\ \A k \in 1..(Len(Top.node.children) - 1) :
           \E q \in 1..Len(log) : log[q] = Event("eval", Top.aid, k, <<>>)

\* C27: an application that is no special form reaches its dispatch with
\* every argument interpreted; the errors of check and of the unknown
\* function arise only there, after all that the arguments wrote, and so
\* [+ [pfmt "a"]], [len [pfmt "a"]] and [nosuch [pfmt "a"]] write a before
\* the error message.
C27_ArgumentsBeforeCheck ==
    /\ [](AtDispatch => AllEvaluated)
    /\ [][(status = "running" /\ status' = "error" /\ err'.line \in DispatchErrors) =>
              /\ AtDispatch /\ AllEvaluated
              /\ out' = out \o ErrPrefix]_vars
    /\ []((/\ status = "error" /\ program.children # <<>>
           /\ Strip(program.children[1]) \in WritesThenStops) =>
              /\ err.line \in DispatchErrors
              /\ out = <<"a">> \o ErrPrefix)

\* [nosuch [pfmt "a"]]: a was written, and then the unknown function
\* stopped the program.
C27_Witness ==
    /\ status = "error" /\ err.line = 798
    /\ out = <<"a">> \o ErrPrefix
    /\ log[Len(log)].ev = "unknown" /\ log[Len(log)].k = 1
    /\ \E q \in 1..Len(log) : log[q].ev = "builtin" /\ log[q].s = s_pfmt

\* C28: whatever the format, do_fmt writes no byte past the end of its
\* directive buffer of BuffSize bytes.
C28_DirectiveFits == AtFormat => ~do_fmt(Top.evaluated_nodes).overflow

====
